---- MODULE Spec2Model ----
(***************************************************************************)
(* A model of fetcherjs: the request manager (manager/manager.ts) on top   *)
(* of the in-memory stale-while-revalidate cache (cache/memory/            *)
(* memoryCache.ts).                                                        *)
(*                                                                         *)
(* Every handler of the manager runs to completion on one thread, so each  *)
(* handler is one action.  A handler is written as a chain of operators on *)
(* a record m that holds the whole program state (the operators carry the  *)
(* names of the functions they model); the action commits the record the   *)
(* handler ends with.  An exception thrown inside a handler (the TypeError *)
(* of reading a field of an undefined request record) sets m.thrown: the   *)
(* mutations made before the throw stay, the rest of the handler is        *)
(* skipped.                                                                *)
(*                                                                         *)
(* Time is Date.now() in abstract ticks.  A timer (the scheduler's wake-up *)
(* timer, the cache's GC timer) may fire at any moment at or after its due *)
(* time.  An asynchronous call (the request function of one key, or a      *)
(* batcher call for several keys) is "in flight" from its invocation until *)
(* the action that settles it.                                             *)
(***************************************************************************)
EXTENDS Integers, Sequences, FiniteSets, TLC

(***************************************************************************)
(* Bounds of the model.                                                    *)
(***************************************************************************)
\* Date.now() runs from 0 to MaxTime.
MaxTime == 2
\* Calls in flight whose result will still be applied.
MaxCalls == 2
\* req.attempts is capped (it is never reset by the code).
MaxAttempts == 2
\* Length of the pending list (a key whose record was removed stays in it, and
\* may be pushed again).
MaxPending == 4
MaxSubs == 2
MaxTagged == 3

(***************************************************************************)
(* Configuration the model runs the program with.                          *)
(***************************************************************************)
\* `undefined` for an optional number (options.priority, options.delay, ...).
Undef == -999
\* retryDecay: false
DecayFalse == -2
\* MemoryCacheConfig.defaultTTL / defaultStaleTTL / defaultGCInterval, in ticks.
defaultTTL == 1
defaultStaleTTL == 1
defaultGCInterval == 1
\* Number.MIN_SAFE_INTEGER, scaled to the integers of the model: below every
\* priority a request can carry.
MIN_SAFE_INTEGER == -1000

AllKeys == {"k1", "k2", "k3"}
\* The order Object.keys(cache) is walked in.
KeyOrder == <<"k1", "k2", "k3">>
Values == {1, 2}
\* The tags in use, in a fixed order
TagNames == {"t", "u"}

VARIABLES
    now,                  \* Date.now()
    maxParallelRequests,  \* cfg.maxParallelRequests
    fetching,             \* manager: keys being fetched
    pending,              \* manager: keys waiting or being fetched, by rank
    batchAdjuster,        \* manager: batch compensation of fetching.length
    requests,             \* manager: key -> request record (or NoReq)
    detached,             \* request records no longer in `requests` that a call in flight still holds
    batchers,             \* manager: registered batchers
    subs,                 \* manager: key -> number of per-key listeners
    subsBroad,            \* manager: number of broadcast listeners
    scheduledPush,        \* due time of the armed wake-up timer, or Undef
    calls,                \* calls in flight whose result will be applied, oldest first
    dead,                 \* keys with a cancelled invocation whose promise has not settled
    cache,                \* cache: key -> entry (or NoEntry)
    tags,                 \* cache: tag -> the keys listed under it, in the order they were added
    locks,                \* cache: key -> locked
    gcPending,            \* cache: a GC timer is outstanding
    gcDue,                \* due time of the GC timer
    step                  \* what the last handler was, returned and started

vars == <<now, maxParallelRequests, fetching, pending, batchAdjuster, requests,
          detached, batchers, subs, subsBroad, scheduledPush, calls, dead,
          cache, tags, locks, gcPending, gcDue, step>>

NoReq == [type |-> "none"]
NoEntry == [kind |-> "none"]
\* Names of the request record objects that left `requests` while a call in
\* flight holds them (a call holds at most MaxKeys of them).
MaxKeys == 3
DetIds == 1..(MaxKeys * MaxCalls)

\* How the listeners and the interceptor hooks behave during one handler: the
\* per-key and broadcast listeners that throw when called, and those for which
\* cfg.hooks.onNotifySub / onNotifyBroad returns false.  Listeners are numbered
\* in the order of their registration.
Polite == [subThrows |-> {}, broadThrows |-> {}, subVeto |-> {}, broadVeto |-> {}]

\* The program state as one record; a handler maps it to the next one.
Machine ==
    [now |-> now, maxParallelRequests |-> maxParallelRequests,
     fetching |-> fetching, pending |-> pending, batchAdjuster |-> batchAdjuster,
     requests |-> requests, detached |-> detached, batchers |-> batchers,
     subs |-> subs, subsBroad |-> subsBroad, scheduledPush |-> scheduledPush,
     calls |-> calls, dead |-> dead, cache |-> cache, tags |-> tags, locks |-> locks,
     gcPending |-> gcPending, gcDue |-> gcDue,
     thrown |-> FALSE, overflow |-> FALSE,
     started |-> <<>>, notified |-> <<>>, emitted |-> <<>>, manners |-> Polite]

(***************************************************************************)
(* Sequence helpers: Array.prototype.indexOf / splice / filter.            *)
(***************************************************************************)
Has(s, x) == \E i \in 1..Len(s) : s[i] = x

IndexOf(s, x) == IF Has(s, x) THEN CHOOSE i \in 1..Len(s) : s[i] = x /\ \A j \in 1..(i - 1) : s[j] # x ELSE 0

\* s.splice(s.indexOf(x), 1), nothing when x is absent
RemoveFirst(s, x) ==
    LET i == IndexOf(s, x)
    IN IF i = 0 THEN s ELSE SubSeq(s, 1, i - 1) \o SubSeq(s, i + 1, Len(s))

Min(a, b) == IF a <= b THEN a ELSE b

(***************************************************************************)
(* The memory cache (cache/memory/memoryCache.ts).                         *)
(***************************************************************************)
\* A scheduleCleanup that sets a new timer on every call
scheduleCleanupAgain(m) ==
    [m EXCEPT !.gcPending = TRUE, !.gcDue = m.now + defaultGCInterval]

\* scheduleCleanup: idempotent arming of the GC timer
scheduleCleanup(m) ==
    IF m.gcPending THEN m
    ELSE [m EXCEPT !.gcPending = TRUE, !.gcDue = m.now + defaultGCInterval]

\* A getState that takes an entry for stale only after staleAt has passed
\* (now > staleAt in place of now >= staleAt).
getStateLate(m, key) ==
    LET rec == m.cache[key]
    IN IF rec = NoEntry THEN [found |-> FALSE, value |-> 0, stale |-> FALSE]
       ELSE IF rec.expiresAt # Undef /\ m.now >= rec.expiresAt /\ ~m.locks[key]
            THEN [found |-> FALSE, value |-> 0, stale |-> FALSE]
       ELSE IF rec.staleAt # Undef /\ m.now > rec.staleAt
            THEN [found |-> TRUE, value |-> rec.value, stale |-> TRUE]
       ELSE [found |-> TRUE, value |-> rec.value, stale |-> FALSE]

\* getState: the entry's value and stale flag, or undefined (NoEntry)
getState(m, key) ==
    LET rec == m.cache[key]
    IN IF rec = NoEntry THEN [found |-> FALSE, value |-> 0, stale |-> FALSE]
       ELSE IF rec.expiresAt # Undef /\ m.now >= rec.expiresAt /\ ~m.locks[key]
            THEN [found |-> FALSE, value |-> 0, stale |-> FALSE]
       ELSE IF rec.staleAt # Undef /\ m.now >= rec.staleAt
            THEN [found |-> TRUE, value |-> rec.value, stale |-> TRUE]
       ELSE [found |-> TRUE, value |-> rec.value, stale |-> FALSE]

\* has: key in cache
has(m, key) == m.cache[key] # NoEntry

\* lock
lock(m, key) == [m EXCEPT !.locks[key] = TRUE]

\* An unlock that schedules no cleanup.
unlockQuiet(m, key) == [m EXCEPT !.locks[key] = FALSE]

\* unlock
unlock(m, key) ==
    IF ~m.locks[key] THEN m
    ELSE LET m1 == [m EXCEPT !.locks[key] = FALSE]
         IN IF m1.cache[key] # NoEntry /\ m1.cache[key].expiresAt # Undef
            THEN scheduleCleanup(m1) ELSE m1

\* addTags: the key is pushed onto the list of each tag, from index i; nothing
\* when no tags are given.  A list holds at most MaxTagged keys here.
RECURSIVE addTagsFrom(_, _, _, _)
addTagsFrom(m, key, ts, i) ==
    IF i > Len(ts) THEN m
    ELSE IF Len(m.tags[ts[i]]) >= MaxTagged THEN [m EXCEPT !.overflow = TRUE]
    ELSE addTagsFrom([m EXCEPT !.tags[ts[i]] = Append(@, key)], key, ts, i + 1)

addTags(m, key, tagged, ts) == IF ~tagged THEN m ELSE addTagsFrom(m, key, ts, 1)

\* removeTags: for each tag t of the entry, existing.indexOf(t) is looked up in
\* the list of keys of t and the element found is spliced out, from index i.
RECURSIVE removeTagsFrom(_, _, _)
removeTagsFrom(m, ts, i) ==
    IF i > Len(ts) THEN m
    ELSE removeTagsFrom([m EXCEPT !.tags[ts[i]] = RemoveFirst(@, ts[i])], ts, i + 1)

removeTags(m, key) ==
    IF m.cache[key] = NoEntry \/ ~m.cache[key].tagged THEN m
    ELSE removeTagsFrom(m, m.cache[key].tags, 1)

\* removeRecord: removeTags(key); delete cache[key]; delete locks[key]
dropRecord(m, key) == [m EXCEPT !.cache[key] = NoEntry, !.locks[key] = FALSE]

removeRecord(m, key) == dropRecord(removeTags(m, key), key)

(***************************************************************************)
(* The request manager (manager/manager.ts): records and queues.           *)
(***************************************************************************)
isPending(m, key) == Has(m.pending, key)

isFetching(m, key) == Has(m.fetching, key)

\* The record object a call holds for one of its keys: ref 0 is the object
\* that is still requests[key], ref d > 0 the detached object d.
Obj(m, key, ref) == IF ref = 0 THEN m.requests[key] ELSE m.detached[ref]

SetObj(m, key, ref, rec) ==
    IF ref = 0 THEN [m EXCEPT !.requests[key] = rec]
    ELSE [m EXCEPT !.detached[ref] = rec]

\* Whether a call in flight holds the object that is requests[key].
Held(m, key) ==
    \E c \in 1..Len(m.calls) :
        \E i \in 1..Len(m.calls[c].keys) : m.calls[c].keys[i] = key /\ m.calls[c].refs[i] = 0

\* requests[key] is about to leave the table: the calls that hold the object
\* keep it.  Of a detached object only options, attempts and error are read
\* again (by finishRequestWithSuccess and finishRequestWithError).
Detach(m, key) ==
    IF m.requests[key] = NoReq \/ ~Held(m, key) THEN m
    ELSE IF \A x \in DetIds : m.detached[x] # NoReq THEN [m EXCEPT !.overflow = TRUE]
    ELSE LET d == CHOOSE x \in DetIds : m.detached[x] = NoReq /\ \A y \in 1..(x - 1) : m.detached[y] # NoReq
         IN [m EXCEPT !.detached[d] = [m.requests[key] EXCEPT !.nextAttempt = Undef, !.runs = 0],
                      !.calls = [c \in 1..Len(m.calls) |->
                          [m.calls[c] EXCEPT !.refs = [i \in 1..Len(m.calls[c].keys) |->
                                   IF m.calls[c].keys[i] = key /\ m.calls[c].refs[i] = 0
                                   THEN d ELSE m.calls[c].refs[i]]]]]

\* The references of all calls in flight, in the order of the calls.
RECURSIVE AllRefs(_, _)
AllRefs(cs, c) == IF c > Len(cs) THEN <<>> ELSE cs[c].refs \o AllRefs(cs, c + 1)

\* Objects no call holds any more are garbage; the names of the others are
\* renumbered in the order the calls mention them (a name carries no meaning).
Collect(m) ==
    LET all == AllRefs(m.calls, 1)
        used == {all[i] : i \in 1..Len(all)} \ {0}
        First(d) == CHOOSE i \in 1..Len(all) : all[i] = d /\ \A j \in 1..(i - 1) : all[j] # d
        Rank(d) == 1 + Cardinality({e \in used : First(e) < First(d)})
        Old(n) == CHOOSE d \in used : Rank(d) = n
    IN [m EXCEPT !.detached = [n \in DetIds |-> IF n <= Cardinality(used) THEN m.detached[Old(n)] ELSE NoReq],
                 !.calls = [c \in 1..Len(m.calls) |->
                     [m.calls[c] EXCEPT !.refs = [i \in 1..Len(m.calls[c].refs) |->
                         IF m.calls[c].refs[i] = 0 THEN 0 ELSE Rank(m.calls[c].refs[i])]]]]

\* removeRequest: delete requests[key]
removeRequest(m, key) == [Detach(m, key) EXCEPT !.requests[key] = NoReq]

\* unpackCacheValue: cache.getState through the storage (requestStorageDirect)
unpackCacheValue(m, key) == getState(m, key)

\* state: the request state of a key, or undefined (found = FALSE)
state(m, key) ==
    LET record == m.requests[key]
        cacheValue == IF record # NoReq /\ record.options.type = "query"
                      THEN unpackCacheValue(m, key)
                      ELSE [found |-> FALSE, value |-> 0, stale |-> FALSE]
    IN [found |-> record # NoReq,
        data |-> IF cacheValue.found THEN cacheValue.value ELSE 0,
        hasData |-> cacheValue.found,
        stale |-> cacheValue.found /\ cacheValue.stale,
        pending |-> isPending(m, key),
        fetching |-> isFetching(m, key),
        attempts |-> IF record # NoReq /\ isPending(m, key) THEN record.attempts ELSE Undef,
        error |-> IF record # NoReq THEN record.error ELSE 0]

\* notifySubs: deliver (state, reason) to the listeners of the key and the broadcast listeners
\* notifySubs, the loop over the per-key listeners from listener i: a veto of
\* the hook returns from notifySubs, a listener that throws is caught.
RECURSIVE tellSubs(_, _, _, _)
tellSubs(i, n, b, heard) ==
    IF i > n THEN [heard |-> heard, returned |-> FALSE]
    ELSE IF i \in b.subVeto THEN [heard |-> heard, returned |-> TRUE]
    ELSE tellSubs(i + 1, n, b, Append(heard, [to |-> "sub", who |-> i, threw |-> i \in b.subThrows]))

\* notifySubs, subsBroad.forEach from listener j: a veto of the hook returns
\* from the callback of that listener, a listener that throws is caught.
RECURSIVE tellBroad(_, _, _, _)
tellBroad(j, n, b, heard) ==
    IF j > n THEN heard
    ELSE IF j \in b.broadVeto THEN tellBroad(j + 1, n, b, heard)
    ELSE tellBroad(j + 1, n, b, Append(heard, [to |-> "broad", who |-> j, threw |-> j \in b.broadThrows]))

\* A dispatch without try/catch: the first listener that throws ends it
dispatchUncaught(nsubs, nbroad, b) ==
    LET all == tellBroad(1, nbroad, b, tellSubs(1, nsubs, b, <<>>).heard)
        bad == {i \in 1..Len(all) : all[i].threw}
    IN IF bad = {} THEN [heard |-> all, thrown |-> FALSE]
       ELSE [heard |-> SubSeq(all, 1, CHOOSE i \in bad : \A j \in bad : i <= j), thrown |-> TRUE]

\* notifySubs, the calls of the listeners: the deliveries made, in order, and
\* whether an exception leaves notifySubs (both loops catch everything)
dispatch(nsubs, nbroad, b) ==
    [heard |-> IF tellSubs(1, nsubs, b, <<>>).returned THEN tellSubs(1, nsubs, b, <<>>).heard
               ELSE tellBroad(1, nbroad, b, tellSubs(1, nsubs, b, <<>>).heard),
     thrown |-> FALSE]

notifySubs(m, key, reason, withState) ==
    IF m.subs[key] = 0 /\ m.subsBroad = 0 THEN m
    ELSE LET s == IF withState.found THEN withState ELSE state(m, key)
         IN IF ~s.found THEN m
            ELSE [m EXCEPT !.notified = Append(@, [key |-> key, reason |-> reason, state |-> s,
                                                     subs |-> m.subs[key], broad |-> m.subsBroad,
                                                     manners |-> m.manners,
                                                     heard |-> dispatch(m.subs[key], m.subsBroad, m.manners).heard]),
                           !.thrown = @ \/ dispatch(m.subs[key], m.subsBroad, m.manners).thrown]

NoState == [found |-> FALSE]

\* removePending / removeFetching (always called with notify = false)
removePending(m, key) == [m EXCEPT !.pending = RemoveFirst(@, key)]

\* A removeFetching that leaves the list alone
removeFetchingNot(m, key) == m

removeFetching(m, key) == [m EXCEPT !.fetching = RemoveFirst(@, key)]

\* The comparator of pending.sort: negative when a goes first.
compare(m, a, b) ==
    LET ra == m.requests[a]
        rb == m.requests[b]
        rap == IF ra.options.priority = Undef THEN MIN_SAFE_INTEGER ELSE ra.options.priority
        rbp == IF rb.options.priority = Undef THEN MIN_SAFE_INTEGER ELSE rb.options.priority
    IN IF ra.options.type = "mutation" /\ rb.options.type # "mutation" THEN -1
       ELSE IF rb.options.type = "mutation" /\ ra.options.type # "mutation" THEN 1
       ELSE rbp - rap

RECURSIVE InsertSorted(_, _, _)
InsertSorted(m, s, x) ==
    IF s = <<>> THEN <<x>>
    ELSE IF compare(m, s[Len(s)], x) <= 0 THEN Append(s, x)
    ELSE Append(InsertSorted(m, SubSeq(s, 1, Len(s) - 1), x), s[Len(s)])

RECURSIVE SortPrefix(_, _, _)
SortPrefix(m, s, n) ==
    IF n = 0 THEN <<>> ELSE InsertSorted(m, SortPrefix(m, s, n - 1), s[n])

\* Array.prototype.sort with the comparator above: stable
sortPending(m, s) == SortPrefix(m, s, Len(s))

\* addPending: push the key, sort by rank, notify.  The comparator reads
\* requests[a].options: with two or more keys in the list, one of them without
\* a record, it throws a TypeError, the array is left as pushed and nothing
\* after the sort runs.
addPending(m, key) ==
    LET pushed == Append(m.pending, key)
    IN IF Len(pushed) > MaxPending THEN [m EXCEPT !.overflow = TRUE]
       ELSE IF Len(pushed) >= 2 /\ \E i \in 1..Len(pushed) : m.requests[pushed[i]] = NoReq
       THEN [m EXCEPT !.pending = pushed, !.thrown = TRUE]
       ELSE notifySubs([m EXCEPT !.pending = sortPending(m, pushed)], key, "pending", NoState)

\* tagsMatch
tagsMatch(tagged, requestTags, batcherTags, match) ==
    IF ~tagged THEN FALSE
    ELSE IF match = "All"
         THEN Len(requestTags) = Len(batcherTags) /\
              Cardinality({i \in 1..Len(batcherTags) : Has(requestTags, batcherTags[i])}) = Len(requestTags)
    ELSE IF match = "Any" THEN \E i \in 1..Len(batcherTags) : Has(requestTags, batcherTags[i])
    ELSE ~(\E i \in 1..Len(batcherTags) : Has(requestTags, batcherTags[i]))

\* A findBatcher that never finds a batch: every request runs single.
findBatcherNone(m, key, req) == [found |-> FALSE, thrown |-> FALSE, matching |-> <<>>]

\* findBatcher: the batch a ready request starts, if a batcher matches it and
\* other keys are waiting.  thrown: a waiting key has no record.
findBatcher(m, key, req) ==
    LET none == [found |-> FALSE, thrown |-> FALSE, matching |-> <<>>]
        bs == {i \in 1..Len(m.batchers) :
                 tagsMatch(TRUE, req.options.tags, m.batchers[i].tags, m.batchers[i].match)}
    IN IF req.options.type # "query" \/ bs = {} THEN none
       ELSE LET b == m.batchers[CHOOSE i \in bs : \A j \in bs : i <= j]
                Waits(p) == ~Has(m.fetching, p) /\ p # key
                requestsWaiting == SelectSeq(m.pending, Waits)
                Matches(r) == m.requests[r].options.type = "query" /\
                              tagsMatch(m.requests[r].options.tagged, m.requests[r].options.tags, b.tags, b.match)
                matching == SelectSeq(requestsWaiting, Matches)
                cut == IF b.maxBatchSize # Undef /\ b.maxBatchSize > 0 /\ Len(matching) > b.maxBatchSize
                       THEN SubSeq(matching, 1, b.maxBatchSize) ELSE matching
            IN IF requestsWaiting = <<>> THEN none
               ELSE IF \E i \in 1..Len(requestsWaiting) : m.requests[requestsWaiting[i]] = NoReq
                    THEN [found |-> FALSE, thrown |-> TRUE, matching |-> <<>>]
               ELSE IF matching = <<>> THEN none
               ELSE [found |-> TRUE, thrown |-> FALSE, matching |-> <<key>> \o cut]

(***************************************************************************)
(* The scheduler.                                                          *)
(***************************************************************************)
queueFull(m) ==
    m.maxParallelRequests >= 0 /\ Len(m.fetching) - m.batchAdjuster >= m.maxParallelRequests

\* addFetching: fetching.push(...keys), then a notification per key
RECURSIVE notifyEach(_, _, _, _)
notifyEach(m, keys, i, reason) ==
    IF i > Len(keys) THEN m
    ELSE notifyEach(notifySubs(m, keys[i], reason, NoState), keys, i + 1, reason)

\* An addFetching that tells nobody
addFetchingQuiet(m, keys) == [m EXCEPT !.fetching = @ \o keys]

\* An addFetching that moves the keys from pending to fetching
addFetchingMoved(m, keys) ==
    notifyEach([m EXCEPT !.fetching = @ \o keys,
                         !.pending = SelectSeq(@, LAMBDA p : ~Has(keys, p))], keys, 1, "fetching")

addFetching(m, keys) ==
    notifyEach([m EXCEPT !.fetching = @ \o keys], keys, 1, "fetching")

\* Whether the record ra ranks strictly above rb: a mutation above a query,
\* within a class the higher priority, an unset priority below every number.
Higher(ra, rb) ==
    LET rap == IF ra.options.priority = Undef THEN MIN_SAFE_INTEGER ELSE ra.options.priority
        rbp == IF rb.options.priority = Undef THEN MIN_SAFE_INTEGER ELSE rb.options.priority
    IN \/ ra.options.type = "mutation" /\ rb.options.type # "mutation"
       \/ (ra.options.type = "mutation") = (rb.options.type = "mutation") /\ rap > rbp

\* A request the scheduler could start now: waiting, with a record, its nextAttempt elapsed.
Eligible(m, q) ==
    /\ isPending(m, q) /\ ~isFetching(m, q)
    /\ m.requests[q] # NoReq
    /\ (m.requests[q].nextAttempt = Undef \/ m.requests[q].nextAttempt <= m.now)

\* What is noted about a start: the keys, the argument tuples the function is
\* invoked with (reqs.map(r => r.req.args)), which of the keys have a
\* nextAttempt in the future, and whether a request left waiting ranks above
\* one of them.
Start(m, kind, keys) ==
    LET ks == {keys[i] : i \in 1..Len(keys)}
    IN [kind |-> kind, keys |-> keys,
        args |-> [i \in 1..Len(keys) |-> m.requests[keys[i]].args],
        early |-> {k \in ks : m.requests[k].nextAttempt # Undef /\ m.requests[k].nextAttempt > m.now},
        outranked |-> \E k \in ks, q \in AllKeys \ ks :
                          Eligible(m, q) /\ Higher(m.requests[q], m.requests[k])]

\* runSingleRequest up to its await: the request function is invoked and
\* req.cancel becomes the closure of this invocation.
runSingleRequest(m, key) ==
    IF Len(m.calls) >= MaxCalls THEN [m EXCEPT !.overflow = TRUE]
    ELSE [m EXCEPT
            !.calls = Append([x \in 1..Len(m.calls) |->
                                 IF m.calls[x].kind = "single" /\ m.calls[x].keys = <<key>> /\
                                    m.calls[x].refs = <<0>>
                                 THEN [m.calls[x] EXCEPT !.cancellable = FALSE]
                                 ELSE m.calls[x]],
                             [kind |-> "single", keys |-> <<key>>, refs |-> <<0>>, cancellable |-> TRUE,
                              cut |-> {}]),
            !.requests[key].runs = Min(@ + 1, MaxAttempts + 1),
            !.started = Append(@, Start(m, "single", <<key>>))]

\* runBatchedRequest up to its await: the batcher is invoked with the
\* argument tuples of the keys' records.
runBatchedRequest(m, keys) ==
    IF Len(m.calls) >= MaxCalls \/ Len(keys) > MaxKeys THEN [m EXCEPT !.overflow = TRUE]
    ELSE [m EXCEPT
            !.calls = Append(@, [kind |-> "batch", keys |-> keys, refs |-> [i \in 1..Len(keys) |-> 0],
                                 cancellable |-> FALSE, cut |-> {}]),
            !.started = Append(@, Start(m, "batch", keys))]

\* A pushQueue without the test of nextAttempt: no request is left waiting.
notYetNever(m, pr) == FALSE

\* The test of pushQueue that leaves a request waiting: nextAttempt is in the future.
notYet(m, pr) == pr.nextAttempt # Undef /\ pr.nextAttempt > m.now

\* The loop of pushQueue over pending, from index i; nsp is nextScheduledPush.
\* The result is [m |-> the state after, nsp |-> nextScheduledPush].
RECURSIVE pushLoop(_, _, _)

\* The end of one round of the loop: break when the queue is full.
afterStart(m1, i, nsp) ==
    IF m1.overflow \/ queueFull(m1) THEN [m |-> m1, nsp |-> nsp]
    ELSE pushLoop(m1, i + 1, nsp)

\* The body of the loop for a ready request p: a batch if findBatcher found
\* one (b), the request alone otherwise.
startNext(m, p, b) ==
    IF b.found
    THEN runBatchedRequest(
             addFetching([m EXCEPT !.batchAdjuster = @ + Len(b.matching) - 1], b.matching),
             b.matching)
    ELSE runSingleRequest(addFetching(m, <<p>>), p)

startOrThrow(m, i, nsp, p, b) ==
    IF b.thrown THEN [m |-> [m EXCEPT !.thrown = TRUE], nsp |-> nsp]
    ELSE afterStart(startNext(m, p, b), i, nsp)

pushLoop(m, i, nsp) ==
    IF i > Len(m.pending) THEN [m |-> m, nsp |-> nsp]
    ELSE IF isFetching(m, m.pending[i]) THEN pushLoop(m, i + 1, nsp)
    ELSE IF m.requests[m.pending[i]] = NoReq THEN [m |-> [m EXCEPT !.thrown = TRUE], nsp |-> nsp]
    ELSE IF notYet(m, m.requests[m.pending[i]])
         THEN pushLoop(m, i + 1,
                       IF nsp = -1 THEN m.requests[m.pending[i]].nextAttempt
                       ELSE Min(nsp, m.requests[m.pending[i]].nextAttempt))
    ELSE startOrThrow(m, i, nsp, m.pending[i],
                      findBatcher(m, m.pending[i], m.requests[m.pending[i]]))

\* The end of pushQueue: the wake-up timer is armed if the queue is not full
\* and a request waits for its nextAttempt.
armTimer(r) ==
    IF r.m.thrown \/ r.m.overflow THEN r.m
    ELSE IF ~queueFull(r.m) /\ r.nsp >= 0 THEN [r.m EXCEPT !.scheduledPush = r.nsp]
    ELSE r.m

\* pushQueue: start what can be started, arm the wake-up timer for the rest
pushQueue(m) ==
    IF queueFull(m) THEN [m EXCEPT !.scheduledPush = Undef]
    ELSE armTimer(pushLoop([m EXCEPT !.scheduledPush = Undef], 1, -1))

\* pushQueue unless the handler has thrown before
pushUnlessThrown(m) == IF m.thrown \/ m.overflow THEN m ELSE pushQueue(m)

\* addRequest: requests[key] = req, and with initiate addPending and pushQueue.
\* isNew: req is a new object (the object it replaces stays with the calls that hold it).
addRequest(m, key, req, initiate, isNew) ==
    IF ~initiate
    THEN [(IF isNew THEN Detach(m, key) ELSE m) EXCEPT !.requests[key] = req]
    ELSE pushUnlessThrown(
             addPending([(IF isNew THEN Detach(m, key) ELSE m) EXCEPT !.requests[key] = req], key))

(***************************************************************************)
(* Cache writes and removals, and the manager's cache listener.            *)
(***************************************************************************)
\* A cache listener that leaves the record of a cleared or expired key registered
onCacheChangeKeepRecord(m, key, change) ==
    IF change = "update" THEN notifySubs(m, key, "manual", NoState)
    ELSE IF m.requests[key] = NoReq THEN m
    ELSE notifySubs([m EXCEPT !.requests[key].expired = TRUE], key, "expired", NoState)

\* A cache listener that tells nobody of an update
onCacheChangeSilent(m, key, change) ==
    IF change = "update" THEN m
    ELSE IF m.requests[key] = NoReq THEN m
    ELSE removeRequest(
             notifySubs([m EXCEPT !.requests[key].expired = TRUE], key, "expired", NoState),
             key)

\* onCacheChange: the manager's handler of the cache's notifications
onCacheChange(m, key, change) ==
    IF change = "update" THEN notifySubs(m, key, "manual", NoState)
    ELSE IF m.requests[key] = NoReq THEN m
    ELSE removeRequest(
             notifySubs([m EXCEPT !.requests[key].expired = TRUE], key, "expired", NoState),
             key)

\* notify: call the cache's subscribers (the manager subscribes at construction)
notify(m, key, change) ==
    onCacheChange([m EXCEPT !.emitted = Append(@, [key |-> key, change |-> change])], key, change)

\* The end of set: scheduleCleanup for an entry that expires
cleanupIf(m, expires) == IF expires THEN scheduleCleanup(m) ELSE m

\* set
set(m, key, value, ttl, staleTTL, skipNotify, tagged, ts) ==
    LET actualTTL == IF ttl = Undef THEN defaultTTL ELSE ttl
        staleIn == IF staleTTL = Undef THEN defaultStaleTTL ELSE staleTTL
        actualStaleTTL == IF staleIn # Undef /\ staleIn < 0 THEN Undef ELSE staleIn
        fullTTL == IF actualStaleTTL # Undef THEN actualTTL + actualStaleTTL ELSE actualTTL
        expiresAt == IF actualTTL >= 0 THEN m.now + fullTTL ELSE Undef
        staleAt == IF actualStaleTTL # Undef /\ actualStaleTTL >= 0 THEN m.now + actualTTL ELSE Undef
        rec == [kind |-> "entry", value |-> value, expiresAt |-> expiresAt, staleAt |-> staleAt,
                ttl |-> ttl, staleTTL |-> staleTTL, tagged |-> tagged, tags |-> ts, setAt |-> m.now]
    IN cleanupIf(IF skipNotify THEN addTags([m EXCEPT !.cache[key] = rec], key, tagged, ts)
                 ELSE notify(addTags([m EXCEPT !.cache[key] = rec], key, tagged, ts), key, "update"),
                 actualTTL >= 0)

\* get
get(m, key) == getState(m, key)

\* clear
clear(m, key) ==
    IF m.cache[key] = NoEntry THEN m
    ELSE notify(removeRecord(m, key), key, "clear")

\* clear with the value it returns
cleared(m, key) == [m |-> clear(m, key), ret |-> m.cache[key] # NoEntry]

\* The elements of a sequence without repetition, in the order of their first
\* occurrence (Object.keys of an object filled in that order).
RECURSIVE Distinct(_)
Distinct(q) ==
    IF q = <<>> THEN <<>>
    ELSE LET rest == Distinct(SubSeq(q, 1, Len(q) - 1))
         IN IF Has(rest, q[Len(q)]) THEN rest ELSE Append(rest, q[Len(q)])

\* The lists of the tags ts in the index, one after the other, from index i
RECURSIVE Listed(_, _, _)
Listed(m, ts, i) == IF i > Len(ts) THEN <<>> ELSE m.tags[ts[i]] \o Listed(m, ts, i + 1)

\* findByTags(t, match, check): the keys found, in order.  check is the set of
\* keys the predicate accepts (AllKeys when there is no predicate).
findByTags(m, ts, match, check) ==
    LET InAll(k) == \A i \in 2..Len(ts) : Has(m.tags[ts[i]], k)
        HasNone(k) == /\ m.cache[k] # NoEntry
                      /\ \A i \in 1..Len(ts) :
                             ~(m.cache[k].tagged /\ Has(m.cache[k].tags, ts[i]))
        Checked(k) == k \in check
        res == IF ts = <<>> THEN <<>>
               ELSE IF match = "All" THEN SelectSeq(m.tags[ts[1]], InAll)
               ELSE IF match = "Any" THEN Distinct(Listed(m, ts, 1))
               ELSE SelectSeq(KeyOrder, HasNone)
    IN SelectSeq(res, Checked)

\* collected.forEach(clear), from index i
RECURSIVE clearEach(_, _, _)
clearEach(m, collected, i) ==
    IF i > Len(collected) THEN m ELSE clearEach(clear(m, collected[i]), collected, i + 1)

\* clearByTags(ts, match, check): [m |-> the state after, ret |-> collected.length]
clearByTags(m, ts, match, check) ==
    [m |-> clearEach(m, findByTags(m, ts, match, check), 1),
     ret |-> Len(findByTags(m, ts, match, check))]

\* gc: one sweep over Object.keys(cache), from index i; awaiting is counted
RECURSIVE gcLoop(_, _, _)
gcLoop(m, i, awaiting) ==
    IF i > Len(KeyOrder) THEN [m |-> m, awaiting |-> awaiting]
    ELSE LET k == KeyOrder[i]
             v == m.cache[k]
         IN IF v = NoEntry \/ v.expiresAt = Undef \/ m.locks[k] THEN gcLoop(m, i + 1, awaiting)
            ELSE IF v.expiresAt > m.now THEN gcLoop(m, i + 1, awaiting + 1)
            ELSE gcLoop(notify(removeRecord(m, k), k, "expire"), i + 1, awaiting)

gc(m) == gcLoop(m, 1, 0)

(***************************************************************************)
(* Finishing a call.                                                       *)
(***************************************************************************)
\* A success that leaves the record of a mutation registered
finishOkKeepRecord(m1, key, req, result) ==
    IF req.options.type = "query"
    THEN notifySubs(
             IF ~(req.options.equalityCheck /\ get(m1, key).found /\ get(m1, key).value = result)
             THEN set(m1, key, result, req.options.ttl, req.options.staleTTL, TRUE,
                      req.options.tagged, req.options.tags)
             ELSE m1,
             key, "success", NoState)
    ELSE notifySubs(m1, key, "success",
                    [found |-> TRUE, data |-> result, hasData |-> TRUE, stale |-> FALSE,
                     pending |-> FALSE, fetching |-> FALSE, attempts |-> Undef, error |-> 0])

\* A success that writes the cache whatever equalityCheck reports
finishOkAlwaysWrite(m1, key, req, result) ==
    IF req.options.type = "query"
    THEN notifySubs(set(m1, key, result, req.options.ttl, req.options.staleTTL, TRUE,
                        req.options.tagged, req.options.tags),
                    key, "success", NoState)
    ELSE notifySubs(removeRequest(m1, key), key, "success",
                    [found |-> TRUE, data |-> result, hasData |-> TRUE, stale |-> FALSE,
                     pending |-> FALSE, fetching |-> FALSE, attempts |-> Undef, error |-> 0])

\* finishRequestWithSuccess after removeFetching and removePending
finishOk(m1, key, req, result) ==
    IF req.options.type = "query"
    THEN notifySubs(
             IF ~(req.options.equalityCheck /\ get(m1, key).found /\ get(m1, key).value = result)
             THEN set(m1, key, result, req.options.ttl, req.options.staleTTL, TRUE,
                      req.options.tagged, req.options.tags)
             ELSE m1,
             key, "success", NoState)
    ELSE notifySubs(removeRequest(m1, key), key, "success",
                    [found |-> TRUE, data |-> result, hasData |-> TRUE, stale |-> FALSE,
                     pending |-> FALSE, fetching |-> FALSE, attempts |-> Undef, error |-> 0])

\* finishRequestWithSuccess(key, req, result); ref names the object req
finishRequestWithSuccess(m, key, ref, result) ==
    finishOk(removePending(removeFetching(m, key), key), key, Obj(m, key, ref), result)

\* defaultRetryDecay, in ticks of a second
defaultRetryDecay(attempts) == Min(2 ^ attempts, 30)

\* finishRequestWithError(key, req, error)
finishRequestWithError(m, key, ref, error) ==
    LET old == Obj(m, key, ref)
        req == [old EXCEPT !.attempts = @ + 1, !.error = error]
        retries == IF req.options.retries # Undef THEN req.options.retries ELSE 0
        retryDecay == req.options.retryDecay
        retryStatus == IF retryDecay = Undef THEN defaultRetryDecay(req.attempts) ELSE retryDecay
        shouldRetry == retries >= req.attempts /\ retryStatus # DecayFalse
        rs == [found |-> TRUE, data |-> 0, hasData |-> FALSE, stale |-> FALSE,
               pending |-> FALSE, fetching |-> FALSE, attempts |-> Undef, error |-> error]
        m1 == SetObj(m, key, ref, req)
    IN IF old.attempts >= MaxAttempts THEN [m EXCEPT !.overflow = TRUE]
       ELSE IF ~shouldRetry
       THEN LET m2 == removePending(removeFetching(m1, key), key)
            IN IF req.options.type = "mutation"
               THEN notifySubs(removeRequest(m2, key), key, "error", rs)
               ELSE notifySubs(m2, key, "error", NoState)
       ELSE notifySubs(
                removeFetching(SetObj(m, key, ref, [req EXCEPT !.nextAttempt = m.now + retryStatus]), key),
                key, "retry", NoState)

(***************************************************************************)
(* The manager's operations.                                               *)
(***************************************************************************)
\* req.cancel(): the invocation the closure belongs to is flagged cancelled;
\* its outcome will be dropped (it moves from calls to dead).
cancelClosure(m, key) ==
    LET Mine(c) == c.kind = "single" /\ c.cancellable /\ c.keys = <<key>> /\ c.refs = <<0>>
        Other(c) == ~Mine(c)
    IN IF SelectSeq(m.calls, Mine) = <<>> THEN m
       ELSE [m EXCEPT !.calls = SelectSeq(@, Other), !.dead = @ \cup {key}]

\* A batcher call has no cancel closure: the call stays in flight.  It is noted
\* on the call that cancel(key) was called for one of its requests.
noteCut(m, key) ==
    [m EXCEPT !.calls = [c \in 1..Len(m.calls) |->
        IF m.calls[c].kind = "batch" /\
           \E i \in 1..Len(m.calls[c].keys) : m.calls[c].keys[i] = key /\ m.calls[c].refs[i] = 0
        THEN [m.calls[c] EXCEPT !.cut = @ \cup {key}] ELSE m.calls[c]]]

\* A cancel that drops the record whatever the cache holds.
cancelLiveAlways(m, key) ==
    pushQueue(removeRequest(
        removeFetching(
            removePending(
                noteCut(cancelClosure([m EXCEPT !.requests[key].cancelled = TRUE], key), key),
                key),
            key),
        key))

\* cancel after its two early returns
cancelLive(m, key) ==
    LET m2 == removeFetching(
                  removePending(
                      noteCut(cancelClosure([m EXCEPT !.requests[key].cancelled = TRUE], key), key),
                      key),
                  key)
    IN pushQueue(IF m.requests[key].options.type = "mutation" \/ ~has(m2, key)
                 THEN removeRequest(m2, key) ELSE m2)

\* cancel: [m |-> the state after, ret |-> the value returned]
cancel(m, key) ==
    IF m.requests[key] = NoReq \/ m.requests[key].cancelled THEN [m |-> m, ret |-> FALSE]
    ELSE IF ~isPending(m, key) /\ ~isFetching(m, key) THEN [m |-> m, ret |-> TRUE]
    ELSE [m |-> cancelLive(m, key), ret |-> TRUE]

\* The record request() creates.
NewRecord(m, opts, args) ==
    [type |-> "request", args |-> args, options |-> opts, attempts |-> 0, error |-> 0,
     nextAttempt |-> IF opts.delay # Undef THEN m.now + opts.delay ELSE Undef,
     cancelled |-> FALSE, expired |-> FALSE, runs |-> 0, barred |-> FALSE]

\* A restart condition under which every mutation replaces the record
shouldRestartMutations(opts, cacheValue, record) ==
    \/ opts.type = "mutation"
    \/ opts.type = "query" /\ (opts.forced \/ (cacheValue.found /\ cacheValue.stale))
    \/ record = NoReq
    \/ record.cancelled
    \/ record.expired

\* The condition of request() under which a new record replaces the existing one.
shouldRestart(opts, cacheValue, record) ==
    \/ opts.type = "query" /\ (opts.forced \/ (cacheValue.found /\ cacheValue.stale))
    \/ record = NoReq
    \/ record.cancelled
    \/ record.expired

\* The state request() returns
answer(m2, key, cacheValue, record, restart) ==
    [m |-> m2,
     ret |-> [data |-> IF cacheValue.found THEN cacheValue.value ELSE 0,
              hasData |-> cacheValue.found,
              stale |-> cacheValue.found /\ cacheValue.stale,
              pending |-> isPending(m2, key),
              fetching |-> isFetching(m2, key),
              error |-> IF restart THEN 0 ELSE record.error,
              restarted |-> restart]]

\* request after cancel(key): the new record and addRequest
replace(m1, key, rec, initiateRequest) ==
    IF m1.thrown \/ m1.overflow THEN m1
    ELSE addRequest(m1, key, rec, initiateRequest, TRUE)

\* request: [m |-> the state after, ret |-> the RequestState returned]
request(m, key, opts, args) ==
    LET cacheValue == IF opts.type = "query" THEN unpackCacheValue(m, key)
                      ELSE [found |-> FALSE, value |-> 0, stale |-> FALSE]
        record == m.requests[key]
        restart == shouldRestart(opts, cacheValue, record)
        wasRehydrated == record = NoReq /\ cacheValue.found
        initiateRequest == ~wasRehydrated \/ (opts.type = "query" /\ opts.forced)
                           \/ (cacheValue.found /\ cacheValue.stale)
    IN answer(IF ~restart THEN m
              ELSE replace(IF record # NoReq THEN cancel(m, key).m ELSE m,
                           key, NewRecord(m, opts, args), initiateRequest),
              key, cacheValue, record, restart)

\* refetchByKey without the test of the queues
refetchByKeyAlways(m, key) ==
    LET record == m.requests[key]
    IN IF record = NoReq \/ record.options.type = "mutation" THEN [m |-> m, ret |-> FALSE]
       ELSE [m |-> addRequest(m, key, record, TRUE, FALSE), ret |-> TRUE]

\* refetchByKey without the test of the request's type
refetchByKeyAnyType(m, key) ==
    LET record == m.requests[key]
    IN IF record = NoReq THEN [m |-> m, ret |-> FALSE]
       ELSE IF isPending(m, key) \/ isFetching(m, key) THEN [m |-> m, ret |-> TRUE]
       ELSE [m |-> addRequest(m, key, record, TRUE, FALSE), ret |-> TRUE]

\* refetchByKey(key): [m |-> the state after, ret |-> the returned boolean]
refetchByKey(m, key) ==
    LET record == m.requests[key]
    IN IF record = NoReq \/ record.options.type = "mutation" THEN [m |-> m, ret |-> FALSE]
       ELSE IF isPending(m, key) \/ isFetching(m, key) THEN [m |-> m, ret |-> TRUE]
       ELSE [m |-> addRequest(m, key, record, TRUE, FALSE), ret |-> TRUE]

\* collected.forEach(refetchByKey), from index i
RECURSIVE refetchEach(_, _, _)
refetchEach(m, collected, i) ==
    IF i > Len(collected) \/ m.thrown \/ m.overflow THEN m
    ELSE refetchEach(refetchByKey(m, collected[i]).m, collected, i + 1)

\* refetchByTags(tags, match, check): [m |-> the state after, ret |-> collected.length]
refetchByTags(m, ts, match, check) ==
    [m |-> refetchEach(m, findByTags(m, ts, match, check), 1),
     ret |-> Len(findByTags(m, ts, match, check))]

\* updateConfig({maxParallelRequests})
updateConfig(m, max) == pushQueue([m EXCEPT !.maxParallelRequests = max])

\* updateCache
updateCache(m, key, value) == set(m, key, value, Undef, Undef, FALSE, FALSE, <<>>)

\* clearCache
clearCache(m, key) == clear(m, key)

\* batch(tags, match, batcher, maxBatchSize)
batch(m, batcherTags, match, maxBatchSize) ==
    IF \E i \in 1..Len(m.batchers) :
           Len(m.batchers[i].tags) = Len(batcherTags) /\ m.batchers[i].match = match /\
           Cardinality({j \in 1..Len(m.batchers[i].tags) : Has(batcherTags, m.batchers[i].tags[j])}) = Len(batcherTags)
    THEN m
    ELSE [m EXCEPT !.batchers = Append(@, [tags |-> batcherTags, match |-> match, maxBatchSize |-> maxBatchSize])]

\* unbatch(tags, match)
unbatch(m, batcherTags, match) ==
    LET Same(b) == Len(b.tags) = Len(batcherTags) /\ b.match = match /\
                   Cardinality({j \in 1..Len(b.tags) : Has(batcherTags, b.tags[j])}) = Len(batcherTags)
        hit == {i \in 1..Len(m.batchers) : Same(m.batchers[i])}
    IN IF hit = {} THEN m
       ELSE LET e == CHOOSE i \in hit : \A j \in hit : i <= j
            IN [m EXCEPT !.batchers = SubSeq(@, 1, e - 1) \o SubSeq(@, e + 1, Len(@))]

\* sub(key, on): the first listener of a key locks its cache entry
sub(m, key) ==
    IF m.subs[key] = 0 THEN lock([m EXCEPT !.subs[key] = 1], key)
    ELSE [m EXCEPT !.subs[key] = @ + 1]

\* unsub(key, on): the last listener of a key unlocks its cache entry
unsub(m, key) ==
    IF m.subs[key] = 0 THEN m
    ELSE IF m.subs[key] > 1 THEN [m EXCEPT !.subs[key] = @ - 1]
    ELSE unlock([m EXCEPT !.subs[key] = 0], key)

\* subBroadcast(on): one more broadcast listener
subBroadcast(m) == [m EXCEPT !.subsBroad = @ + 1]

(***************************************************************************)
(* Settling a call in flight.                                              *)
(***************************************************************************)
\* Without the call c
dropCall(m, c) == [m EXCEPT !.calls = SubSeq(@, 1, c - 1) \o SubSeq(@, c + 1, Len(@))]

\* runSingleRequest after its await; ok: the promise resolved with `value`
settleSingle(m, c, ok, value) ==
    IF ok
    THEN pushUnlessThrown(
             finishRequestWithSuccess(dropCall(m, c), m.calls[c].keys[1], m.calls[c].refs[1], value))
    ELSE pushUnlessThrown(
             finishRequestWithError(dropCall(m, c), m.calls[c].keys[1], m.calls[c].refs[1], value))

\* The loop of runBatchedRequest over the result entries, from index i.  An
\* entry is "data", "error" or "none" (neither); "none" throws.
RECURSIVE applyResults(_, _, _, _, _)
applyResults(m, keys, refs, res, i) ==
    IF i > Len(res) \/ m.overflow THEN m
    ELSE IF res[i].kind = "data"
         THEN applyResults(finishRequestWithSuccess(m, keys[i], refs[i], res[i].value), keys, refs, res, i + 1)
    ELSE IF res[i].kind = "error"
         THEN applyResults(finishRequestWithError(m, keys[i], refs[i], res[i].value), keys, refs, res, i + 1)
    ELSE [m EXCEPT !.thrown = TRUE]

\* reqs.forEach(r => finishRequestWithError(r.key, r.req, err))
RECURSIVE failAll(_, _, _, _, _)
failAll(m, keys, refs, err, i) ==
    IF i > Len(keys) \/ m.overflow THEN m
    ELSE failAll(finishRequestWithError(m, keys[i], refs[i], err), keys, refs, err, i + 1)

\* The catch of runBatchedRequest
catchAll(m2, keys, refs) ==
    IF m2.thrown THEN failAll([m2 EXCEPT !.thrown = FALSE], keys, refs, 9, 1) ELSE m2

\* The end of runBatchedRequest
afterBatch(m3, n) ==
    IF m3.overflow THEN m3 ELSE pushQueue([m3 EXCEPT !.batchAdjuster = @ - (n - 1)])

\* runBatchedRequest after its await; res: the entries the batcher resolved
\* with, or <<>> with rejected = TRUE
settleBatch(m, c, res, rejected) ==
    afterBatch(
        catchAll(IF rejected \/ Len(res) # Len(m.calls[c].keys) THEN [dropCall(m, c) EXCEPT !.thrown = TRUE]
                 ELSE applyResults(dropCall(m, c), m.calls[c].keys, m.calls[c].refs, res, 1),
                 m.calls[c].keys, m.calls[c].refs),
        Len(m.calls[c].keys))

(***************************************************************************)
(* The environment: what the callers of the manager pass in.               *)
(***************************************************************************)
\* RequestOptions; tags is <<"t">> for a tagged request
Opts(type, forced, priority, retries, retryDecay, delay, tagged) ==
    [type |-> type, forced |-> forced, priority |-> priority, retries |-> retries,
     retryDecay |-> retryDecay, delay |-> delay, tagged |-> tagged,
     tags |-> IF tagged THEN <<"t">> ELSE <<>>,
     equalityCheck |-> FALSE, ttl |-> Undef, staleTTL |-> Undef]

PQuery == Opts("query", FALSE, Undef, Undef, Undef, Undef, FALSE)
PForced == Opts("query", TRUE, Undef, Undef, Undef, Undef, FALSE)
PRetry == Opts("query", FALSE, Undef, 1, 1, Undef, FALSE)
PTagged == Opts("query", FALSE, Undef, Undef, Undef, Undef, TRUE)
PDelay == Opts("query", FALSE, Undef, Undef, Undef, 1, FALSE)
PTaggedDelay == Opts("query", FALSE, Undef, Undef, Undef, 1, TRUE)
PMutation == Opts("mutation", FALSE, Undef, Undef, Undef, Undef, FALSE)
\* tagged queries whose result never goes stale and never expires (ttl: -1, staleTTL: -1)
PKeep == [PTagged EXCEPT !.ttl = -1, !.staleTTL = -1]
PKeepDelay == [PTaggedDelay EXCEPT !.ttl = -1, !.staleTTL = -1]
\* a mutation that is retried once, a second later
PMutRetry == [PMutation EXCEPT !.retries = 1, !.retryDecay = 1]
PKeepRetry == [PKeep EXCEPT !.retries = 1, !.retryDecay = 1]
\* a tagged query with an equalityCheck (payloads are compared by value)
PEqual == [PTagged EXCEPT !.equalityCheck = TRUE]
\* a mutation whose retryDecay is false: retries are allowed but never made
PMutStop == [PMutation EXCEPT !.retries = 1, !.retryDecay = DecayFalse]

P10 == [PKeep EXCEPT !.priority = 10, !.tagged = FALSE, !.tags = <<>>]
P20 == [PKeep EXCEPT !.priority = 20, !.tagged = FALSE, !.tags = <<>>]

\* cfg.maxParallelRequests as updateConfig sets it
Limits == {0, 1}

\* The step a handler leaves behind: what was called, what it returned and
\* what it started and delivered.
NoStep ==
    [op |-> "init", key |-> "", opts |-> PQuery, ret |-> 0, thrown |-> FALSE,
     started |-> <<>>, notified |-> <<>>, emitted |-> <<>>, twice |-> FALSE, before |-> 0]

\* Invocations of the request function of `key` among the calls started.
Invoked(started, key) ==
    Cardinality({i \in 1..Len(started) : started[i].kind = "single" /\ started[i].keys = <<key>>})

Commit(m0, op, key, opts, ret) ==
    LET m == Collect(m0)
    IN /\ ~m0.overflow
       /\ now' = m.now
       /\ maxParallelRequests' = m.maxParallelRequests
       /\ fetching' = m.fetching
       /\ pending' = m.pending
       /\ batchAdjuster' = m.batchAdjuster
       /\ requests' = m.requests
       /\ detached' = m.detached
       /\ batchers' = m.batchers
       /\ subs' = m.subs
       /\ subsBroad' = m.subsBroad
       /\ scheduledPush' = m.scheduledPush
       /\ calls' = m.calls
       /\ dead' = m.dead
       /\ cache' = m.cache
       /\ tags' = m.tags
       /\ locks' = m.locks
       /\ gcPending' = m.gcPending
       /\ gcDue' = m.gcDue
       /\ step' = [op |-> op, key |-> key, opts |-> opts, ret |-> ret, thrown |-> m.thrown,
                   started |-> m.started, notified |-> m.notified, emitted |-> m.emitted,
                   twice |-> op = "request" /\ step.op = "request" /\ step.key = key /\
                             step.opts = opts /\ ~opts.forced /\ ~step.thrown,
                   before |-> IF op = "request" /\ step.op = "request" /\ step.key = key
                              THEN Invoked(step.started, key) ELSE 0]

CommitRet(r, op, key, opts) == Commit(r.m, op, key, opts, r.ret)

(***************************************************************************)
(* Actions.                                                                *)
(***************************************************************************)
Init ==
    /\ now = 0
    /\ maxParallelRequests = -1
    /\ fetching = <<>>
    /\ pending = <<>>
    /\ batchAdjuster = 0
    /\ requests = [k \in AllKeys |-> NoReq]
    /\ detached = [d \in DetIds |-> NoReq]
    /\ batchers = <<>>
    /\ subs = [k \in AllKeys |-> 0]
    /\ subsBroad = 0
    /\ scheduledPush = Undef
    /\ calls = <<>>
    /\ dead = {}
    /\ cache = [k \in AllKeys |-> NoEntry]
    /\ tags = [t \in TagNames |-> <<>>]
    /\ locks = [k \in AllKeys |-> FALSE]
    /\ gcPending = FALSE
    /\ gcDue = 0
    /\ step = NoStep

\* The argument tuple a caller passes with a key: the number of the key.
ArgsOf(k) == IndexOf(KeyOrder, k)

Request(K, O) ==
    \E k \in K, o \in O :
        CommitRet(request(Machine, k, o, ArgsOf(k)), "request", k, o)

\* cancel(key).  It is noted whether the request was waiting (pending, not
\* fetching) or in flight, and a record cancelled while waiting is marked.
cancelNoted(r, k, waiting, flying) ==
    Commit(IF waiting /\ r.m.requests[k] # NoReq THEN [r.m EXCEPT !.requests[k].barred = TRUE] ELSE r.m,
           "cancel", k, PQuery, [ok |-> r.ret, waiting |-> waiting, flying |-> flying])

Cancel(K) ==
    \E k \in K :
        cancelNoted(cancel(Machine, k), k,
                    requests[k] # NoReq /\ Has(pending, k) /\ ~Has(fetching, k),
                    requests[k] # NoReq /\ Has(fetching, k))

\* refetchByKey(key).  A record that is enqueued again starts a new fetch: the
\* mark of a cancel while waiting is taken off.
refetchNoted(r, k, again) ==
    Commit(IF again /\ r.ret /\ r.m.requests[k] # NoReq THEN [r.m EXCEPT !.requests[k].barred = FALSE] ELSE r.m,
           "refetchByKey", k, PQuery, r.ret)

RefetchByKey(K) ==
    \E k \in K :
        refetchNoted(refetchByKey(Machine, k), k, ~Has(pending, k) /\ ~Has(fetching, k))

\* refetchByTags(tags), with the default match Any and no check.  The keys
\* enqueued again start a new fetch, as in refetchByKey.
unbar(m, ks) ==
    [m EXCEPT !.requests = [k \in AllKeys |->
        IF k \in ks /\ m.requests[k] # NoReq THEN [m.requests[k] EXCEPT !.barred = FALSE]
        ELSE m.requests[k]]]

RefetchByTags(TS) ==
    \E ts \in TS :
        Commit(unbar(refetchByTags(Machine, ts, "Any", AllKeys).m,
                     {k \in AllKeys : ~Has(pending, k) /\ ~Has(fetching, k) /\
                                      Has(findByTags(Machine, ts, "Any", AllKeys), k)}),
               "refetchByTags", "", PQuery,
               [tags |-> ts, count |-> refetchByTags(Machine, ts, "Any", AllKeys).ret,
                collected |-> findByTags(Machine, ts, "Any", AllKeys)])

UpdateConfig(L) ==
    \E x \in L :
        /\ x # maxParallelRequests
        /\ Commit(updateConfig(Machine, x), "updateConfig", "", PQuery, x)

Batch ==
    /\ batchers = <<>>
    /\ Commit(batch(Machine, <<"t">>, "Any", Undef), "batch", "", PQuery, 0)

\* batch(['t'], TagMatch.Any, batcher, maxBatchSize)
BatchMax(N) ==
    \E n \in N :
        /\ batchers = <<>>
        /\ Commit(batch(Machine, <<"t">>, "Any", n), "batch", "", PQuery, n)

UpdateCache(K, V) ==
    \E k \in K, v \in V :
        Commit(updateCache(Machine, k, v), "updateCache", k, PQuery, v)

ClearCache(K) ==
    \E k \in K :
        /\ cache[k] # NoEntry
        /\ Commit(clearCache(Machine, k), "clearCache", k, PQuery, 0)

\* The promise of a request function resolves.
SingleOk(V) ==
    \E c \in 1..Len(calls), v \in V :
        /\ calls[c].kind = "single"
        /\ Commit(settleSingle(Machine, c, TRUE, v), "resolve", calls[c].keys[1], PQuery,
                  [call |-> calls[c], res |-> v])

\* The promise of a request function rejects.
SingleErr ==
    \E c \in 1..Len(calls) :
        /\ calls[c].kind = "single"
        /\ Commit(settleSingle(Machine, c, FALSE, 1), "reject", calls[c].keys[1], PQuery,
                  [call |-> calls[c], res |-> 1])

\* What a batcher can resolve with for n keys.
Entries == {[kind |-> "data", value |-> 1], [kind |-> "error", value |-> 1]}

ResultsFor(n) == [1..n -> Entries]

\* The promise of a batcher resolves with one entry per key.
BatchDone ==
    \E c \in 1..Len(calls) :
        /\ calls[c].kind = "batch"
        /\ \E res \in ResultsFor(Len(calls[c].keys)) :
               Commit(settleBatch(Machine, c, res, FALSE), "batchDone", calls[c].keys[1], PQuery,
                      [call |-> calls[c], res |-> res])

\* What a batcher can resolve or reject with for n keys: an entry with data,
\* with an error, or with neither; one entry per key, one entry too few, one
\* too many, or a rejection.
AnyEntries ==
    {[kind |-> "data", value |-> 1], [kind |-> "data", value |-> 2],
     [kind |-> "error", value |-> 1], [kind |-> "none", value |-> 0]}

Outcomes(n) ==
    {[rejected |-> FALSE, res |-> r] : r \in [1..n -> AnyEntries]}
        \cup {[rejected |-> FALSE, res |-> [i \in 1..(n - 1) |-> [kind |-> "data", value |-> 1]]],
              [rejected |-> FALSE, res |-> [i \in 1..(n + 1) |-> [kind |-> "data", value |-> 1]]],
              [rejected |-> TRUE, res |-> <<>>]}

\* The promise of a batcher settles, with a well-formed result or not.
BatchSettle ==
    \E c \in 1..Len(calls) :
        /\ calls[c].kind = "batch"
        /\ \E o \in Outcomes(Len(calls[c].keys)) :
               Commit(settleBatch(Machine, c, o.res, o.rejected), "batchSettle", calls[c].keys[1], PQuery,
                      [call |-> calls[c], res |-> o.res, rejected |-> o.rejected])

\* The promise of the last cancelled invocation of a key settles: runSingleRequest
\* returns at `if (cancelled) return`, the outcome is dropped.
DeadSettle ==
    \E k \in dead :
        Commit([Machine EXCEPT !.dead = @ \ {k}], "dropped", k, PQuery, 0)

Tick ==
    /\ now < MaxTime
    /\ Commit([Machine EXCEPT !.now = @ + 1], "tick", "", PQuery, 0)

\* The wake-up timer of pushQueue fires.
PushTimer ==
    /\ scheduledPush # Undef
    /\ now >= scheduledPush
    /\ Commit(pushQueue([Machine EXCEPT !.scheduledPush = Undef]), "pushTimer", "", PQuery, 0)

\* The end of the GC timer's callback: scheduleCleanup if entries await their expiry
againNever(r) == r.m

again(r) == IF r.awaiting > 0 THEN scheduleCleanup(r.m) ELSE r.m

\* The GC timer of scheduleCleanup fires.
GcTimer ==
    /\ gcPending
    /\ now >= gcDue
    /\ \E m \in {again(gc([Machine EXCEPT !.gcPending = FALSE, !.gcDue = 0]))} :
          Commit(m, "gcTimer", "", PQuery, 0)

\* cache.set(key, value, ttl, staleTTL) called on the cache directly
CacheSet(K, V, T, S) ==
    \E k \in K, v \in V, t \in T, st \in S :
        Commit(set(Machine, k, v, t, st, FALSE, FALSE, <<>>), "set", k, PQuery, [ttl |-> t, staleTTL |-> st])

\* The tags a caller passes to cache.set: none, or a list of tags
TagChoices ==
    {[tagged |-> FALSE, tags |-> <<>>], [tagged |-> TRUE, tags |-> <<"t">>],
     [tagged |-> TRUE, tags |-> <<"u">>], [tagged |-> TRUE, tags |-> <<"t", "u">>]}

\* The tag lists a caller passes to findByTags and clearByTags
TagLists == {<<"t">>, <<"u">>, <<"t", "u">>}

TagMatches == {"All", "Any", "None"}

\* The check predicates: none (every key passes), or one that accepts k1 only
Checks == {AllKeys, {"k1"}}

\* cache.set(key, value, ttl, staleTTL, skipNotify, tags) called on the cache directly
CacheSetTags(K, T, C) ==
    \E k \in K, t \in T, c \in C :
        Commit(set(Machine, k, 1, t, 0, FALSE, c.tagged, c.tags), "setTags", k, PQuery,
               [tagged |-> c.tagged, tags |-> c.tags, was |-> cache[k] # NoEntry])

\* cache.clear(key), of a key with or without an entry
CacheClear(K) ==
    \E k \in K :
        CommitRet(cleared(Machine, k), "clear", k, PQuery)

\* cache.clearByTags(ts, match, check)
ClearByTags ==
    \E ts \in TagLists, match \in TagMatches, check \in Checks :
        /\ findByTags(Machine, ts, match, check) # <<>>
        /\ Commit(clearByTags(Machine, ts, match, check).m, "clearByTags", "", PQuery,
                  [tags |-> ts, match |-> match, check |-> check,
                   count |-> clearByTags(Machine, ts, match, check).ret,
                   collected |-> findByTags(Machine, ts, match, check)])

\* manager.sub(key, on) and the function it returns
Sub(K) ==
    \E k \in K :
        /\ subs[k] < MaxSubs
        /\ Commit(sub(Machine, k), "sub", k, PQuery, 0)

Unsub(K) ==
    \E k \in K :
        /\ subs[k] > 0
        /\ Commit(unsub(Machine, k), "unsub", k, PQuery, 0)

SubBroadcast ==
    /\ subsBroad < MaxSubs
    /\ Commit(subBroadcast(Machine), "subBroadcast", "", PQuery, 0)

\* The first listener of a key, or the first broadcast listener, throws, or
\* the hook returns false for it, in any combination.
Manners == [subThrows : {{}, {1}}, broadThrows : {{}, {1}}, subVeto : {{}, {1}}, broadVeto : {{}, {1}}]

\* request(key, ...) while the listeners and hooks behave as b
RequestTo(K, O, B) ==
    \E k \in K, o \in O, b \in B :
        CommitRet(request([Machine EXCEPT !.manners = b], k, o, ArgsOf(k)), "request", k, o)

\* updateCache(key, value) while the listeners and hooks behave as b
UpdateCacheTo(K, V, B) ==
    \E k \in K, v \in V, b \in B :
        Commit(updateCache([Machine EXCEPT !.manners = b], k, v), "updateCache", k, PQuery, v)

\* cache.lock(key) / cache.unlock(key)
Lock(K) ==
    \E k \in K :
        /\ ~locks[k]
        /\ Commit(lock(Machine, k), "lock", k, PQuery, 0)

Unlock(K) ==
    \E k \in K :
        /\ locks[k]
        /\ Commit(unlock(Machine, k), "unlock", k, PQuery, 0)

(***************************************************************************)
(* Specifications.  Each runs the same program in one environment.         *)
(***************************************************************************)
\* The life of one query key: plain, forced, retried and delayed requests,
\* cancel, success and failure of a call, time, the timers.
Next ==
    \/ Request({"k1"}, {PQuery, PForced, PRetry, PDelay})
    \/ Cancel({"k1"})
    \/ SingleOk({1})
    \/ SingleErr
    \/ DeadSettle
    \/ Tick
    \/ PushTimer
    \/ GcTimer

Spec == Init /\ [][Next]_vars

\* Cancelling and refetching a delayed query whose key has a cached value.
NextCancel ==
    \/ Request({"k1"}, {PDelay})
    \/ Cancel({"k1"})
    \/ RefetchByKey({"k1"})
    \/ UpdateCache({"k1"}, {2})
    \/ SingleOk({1})
    \/ DeadSettle
    \/ Tick
    \/ PushTimer
    \/ GcTimer

SpecCancel == Init /\ [][NextCancel]_vars

\* Two tagged queries, a batcher for their tag, and the concurrency limit.
NextBatch ==
    \/ Request({"k1", "k2"}, {PKeep})
    \/ Cancel({"k1", "k2"})
    \/ UpdateConfig(Limits)
    \/ Batch
    \/ SingleOk({1})
    \/ BatchDone
    \/ DeadSettle

SpecBatch == Init /\ [][NextBatch]_vars

\* A retried query and a delayed query with the same tag, a batcher for the
\* tag, and time.
NextDelay ==
    \/ Request({"k1"}, {PKeepRetry})
    \/ Request({"k2"}, {PKeepDelay})
    \/ UpdateConfig({1})
    \/ Batch
    \/ SingleOk({1})
    \/ SingleErr
    \/ BatchDone
    \/ Tick
    \/ PushTimer

SpecDelay == Init /\ [][NextDelay]_vars

\* Three keys of different rank under a concurrency limit, with a cache
\* update and removal for the key of the lowest rank.
NextPrio ==
    \/ Request({"k1"}, {PQuery})
    \/ Request({"k2"}, {P10, PMutation})
    \/ Request({"k3"}, {P20})
    \/ UpdateConfig(Limits)
    \/ UpdateCache({"k1"}, {2})
    \/ ClearCache({"k1"})
    \/ SingleOk({1})

SpecPrio == Init /\ [][NextPrio]_vars

\* The cache alone.
NextCache ==
    \/ CacheSet({"k1", "k2"}, {1}, {-1, 0, 1}, {0, 1})
    \/ Lock({"k1"})
    \/ Unlock({"k1"})
    \/ ClearCache({"k2"})
    \/ Tick
    \/ GcTimer

SpecCache == Init /\ [][NextCache]_vars

\* A delayed query and a mutation that are cancelled while waiting or in
\* flight, with and without a cache entry for the query.
NextKind ==
    \/ Request({"k1"}, {PDelay})
    \/ Request({"k2"}, {PMutation})
    \/ Cancel({"k1", "k2"})
    \/ UpdateCache({"k1"}, {2})
    \/ SingleOk({1})
    \/ DeadSettle
    \/ Tick
    \/ PushTimer
    \/ GcTimer

SpecKind == Init /\ [][NextKind]_vars

\* Three tagged queries, a batcher, a listener of k1, and batcher calls that
\* settle with every kind of result: well-formed, of the wrong length, with an
\* entry that has neither data nor error, or rejected.
NextSettle ==
    \/ Request({"k1", "k2", "k3"}, {PKeep})
    \/ Sub({"k1"})
    \/ UpdateConfig(Limits)
    \/ Batch
    \/ SingleOk({1})
    \/ BatchSettle

SpecSettle == Init /\ [][NextSettle]_vars

\* A query with listeners that come and go, whose entry is cleared, fetched
\* again and left to expire.
NextSub ==
    \/ Request({"k1"}, {PQuery})
    \/ Sub({"k1"})
    \/ Unsub({"k1"})
    \/ RefetchByKey({"k1"})
    \/ ClearCache({"k1"})
    \/ SingleOk({1})
    \/ Tick
    \/ GcTimer

SpecSub == Init /\ [][NextSub]_vars

\* The cache used directly: entries that do not expire, set with and without
\* tags, set again, and cleared by key and by tags.
NextTags ==
    \/ CacheSetTags({"k1", "k2"}, {-1}, TagChoices)
    \/ CacheClear({"k1", "k2"})
    \/ ClearByTags

SpecTags == Init /\ [][NextTags]_vars

\* A cache that is only filled: entries set, and set again, with and without tags.
NextSets ==
    \/ CacheSetTags({"k1", "k2"}, {-1}, TagChoices)
    \/ CacheSetTags({"k3"}, {-1, 1}, {[tagged |-> TRUE, tags |-> <<"u">>]})

SpecSets == Init /\ [][NextSets]_vars

\* A mutation, retried or not, on a key that also has a tagged cache entry;
\* the key is cancelled and refetched by key and by tag.
NextMutation ==
    \/ Request({"k2"}, {PMutation, PMutRetry})
    \/ CacheSetTags({"k2"}, {-1}, {[tagged |-> TRUE, tags |-> <<"t">>]})
    \/ Cancel({"k2"})
    \/ RefetchByKey({"k2"})
    \/ RefetchByTags({<<"t">>})
    \/ SingleOk({1})
    \/ SingleErr
    \/ DeadSettle
    \/ Tick
    \/ PushTimer

SpecMutation == Init /\ [][NextMutation]_vars

\* One key requested both as a query and as a mutation, cancelled, refetched
\* and settled.
NextMixed ==
    \/ Request({"k2"}, {PMutation, PQuery})
    \/ Cancel({"k2"})
    \/ RefetchByKey({"k2"})
    \/ SingleOk({1})
    \/ DeadSettle

SpecMixed == Init /\ [][NextMixed]_vars

\* A subscribed mutation and a subscribed query, succeeding, failing for good
\* or failing and being retried.
NextFinish ==
    \/ Request({"k2"}, {PMutation, PMutRetry, PMutStop})
    \/ Request({"k1"}, {PKeepRetry})
    \/ Sub({"k1", "k2"})
    \/ SingleOk({1})
    \/ SingleErr
    \/ Tick
    \/ PushTimer

SpecFinish == Init /\ [][NextFinish]_vars

\* A subscribed query whose cached value is replaced by hand while it waits,
\* is in flight, or has settled.
NextManual ==
    \/ Request({"k1"}, {PQuery, PDelay})
    \/ Sub({"k1"})
    \/ Unsub({"k1"})
    \/ UpdateCache({"k1"}, {1, 2})
    \/ Cancel({"k1"})
    \/ SingleOk({1})
    \/ SingleErr
    \/ DeadSettle

SpecManual == Init /\ [][NextManual]_vars

\* A subscribed query with an equalityCheck, refetched over a value cached by
\* hand or by an earlier fetch; the fetch resolves with that value or another.
NextEqual ==
    \/ Request({"k1"}, {PEqual})
    \/ Sub({"k1"})
    \/ UpdateCache({"k1"}, {1})
    \/ RefetchByKey({"k1"})
    \/ SingleOk({1, 2})

SpecEqual == Init /\ [][NextEqual]_vars

\* Per-key and broadcast listeners of one query; some throw, some are vetoed
\* by the hooks.
NextListen ==
    \/ RequestTo({"k1"}, {PKeep}, Manners)
    \/ UpdateCacheTo({"k1"}, {1}, Manners)
    \/ Sub({"k1"})
    \/ SubBroadcast
    \/ SingleOk({1})

SpecListen == Init /\ [][NextListen]_vars

\* A tagged query with at most one per-key and one broadcast listener whose
\* cache entry is cleared by key, cleared by tags, or expires and is swept.
NextExpire ==
    \/ Request({"k1"}, {PTagged})
    \/ (subs["k1"] = 0 /\ Sub({"k1"}))
    \/ (subsBroad = 0 /\ SubBroadcast)
    \/ ClearCache({"k1"})
    \/ ClearByTags
    \/ SingleOk({1})
    \/ Tick
    \/ GcTimer

SpecExpire == Init /\ [][NextExpire]_vars

\* A query and a mutation, and refetchByKey of their keys and of a key never
\* requested; the query is cancelled and its calls resolve with two values.
NextRefetch ==
    \/ Request({"k1"}, {PQuery})
    \/ Request({"k2"}, {PMutation})
    \/ RefetchByKey({"k1", "k2", "k3"})
    \/ Cancel({"k1"})
    \/ SingleOk({1, 2})
    \/ DeadSettle

SpecRefetch == Init /\ [][NextRefetch]_vars

\* The cache on its own with time that passes and timers that fire: the clock
\* advances and a GC timer that is due runs its callback.  k1 expires and
\* can be locked, k2 never expires.
NextGc ==
    \/ CacheSet({"k1"}, {1}, {0, 1}, {0, 1})
    \/ CacheSet({"k2"}, {1}, {-1}, {0})
    \/ Lock({"k1"})
    \/ Unlock({"k1"})
    \/ ClearCache({"k1"})
    \/ Tick
    \/ GcTimer

SpecGc == Init /\ [][NextGc]_vars /\ WF_vars(Tick) /\ WF_vars(GcTimer)

\* Three queries with the same tag under a concurrency limit and a batcher
\* for the tag that is registered with a maximal batch size.
NextBatchMax ==
    \/ Request({"k1", "k2", "k3"}, {PKeep})
    \/ UpdateConfig(Limits)
    \/ BatchMax({1, 2})
    \/ SingleOk({1})
    \/ BatchDone

SpecBatchMax == Init /\ [][NextBatchMax]_vars

\* A query, with an equalityCheck or without, that is requested again when
\* its cached value has gone stale; the fetch resolves with the cached value
\* or with another.
NextStale ==
    \/ Request({"k1"}, {PEqual, PTagged})
    \/ SingleOk({1, 2})
    \/ DeadSettle
    \/ Tick
    \/ GcTimer

SpecStale == Init /\ [][NextStale]_vars

\* A query that is retried once, fails or succeeds, and is fetched again by
\* refetchByKey.
NextCycle ==
    \/ Request({"k1"}, {PRetry, PForced})
    \/ RefetchByKey({"k1"})
    \/ SingleOk({1})
    \/ SingleErr
    \/ DeadSettle
    \/ Tick
    \/ PushTimer

SpecCycle == Init /\ [][NextCycle]_vars

\* Requests issued at time 0 only, a delayed query and a query that is retried
\* once, with a cache that is written and cleared by hand; time passes, every
\* call settles and every timer that is due fires.
Settles == SingleOk({1}) \/ SingleErr

NextStarve ==
    \/ (now = 0 /\ Request({"k1"}, {PDelay}))
    \/ (now = 0 /\ Request({"k2"}, {PRetry}))
    \/ UpdateCache({"k1"}, {2})
    \/ ClearCache({"k1"})
    \/ Settles
    \/ Tick
    \/ PushTimer

\* A call in flight settles: it leaves the list of calls.
CallLeaves == \E c \in 1..Len(calls) : calls' = SubSeq(calls, 1, c - 1) \o SubSeq(calls, c + 1, Len(calls))

\* A wake-up timer that is due fires or is cleared.
TimerGoes == scheduledPush # Undef /\ now >= scheduledPush /\ scheduledPush' = Undef

SpecStarve ==
    /\ Init /\ [][NextStarve]_vars
    /\ WF_now(Tick) /\ WF_calls(CallLeaves) /\ WF_scheduledPush(TimerGoes)

(***************************************************************************)
(* Properties.                                                             *)
(***************************************************************************)
\* Invocations of the request function of the key by the last two handlers,
\* when both were request() for that key.
InvokedByBoth == step.before + Invoked(step.started, step.key)

\* C1: two request() calls in succession for the same key with the same
\* options, neither forced, invoke the request function of the key at most
\* once between them, whatever the cache holds for the key.
C1_OneInvocation == step.twice => InvokedByBoth <= 1

\* C1: the second of two such calls found a stale value cached, and the
\* request function was invoked by each of the two calls.
C1_StaleInvokedTwice ==
    /\ step.twice
    /\ step.ret.stale
    /\ step.before = 1
    /\ Invoked(step.started, step.key) = 1

\* C2: a query request() that is not forced and finds a fresh (non-stale)
\* value cached leaves pending and fetching as they were and invokes no
\* request function, whatever happened to the key before.
C2_FreshNoFetch ==
    [][(step'.op = "request" /\ step'.opts.type = "query" /\ ~step'.opts.forced /\
        step'.ret.hasData /\ ~step'.ret.stale)
       => (pending' = pending /\ fetching' = fetching /\ step'.started = <<>>)]_vars

\* C2: a request() that was not forced found a fresh value cached and the
\* request function of the key was invoked by it.
C2_FreshFetched ==
    /\ step.op = "request"
    /\ ~step.opts.forced
    /\ step.ret.hasData
    /\ ~step.ret.stale
    /\ Invoked(step.started, step.key) = 1

\* What getState reports for key k now.
Reported(k) == getState(Machine, k)

\* The windows of an unlocked entry set with ttl >= 0 and staleTTL >= 0:
\* the value, not stale, before setAt + ttl; the value, stale, from then
\* until setAt + ttl + staleTTL; undefined from then on.
InWindows(k) ==
    LET e == cache[k]
        v == Reported(k)
    IN /\ now < e.setAt + e.ttl => (v.found /\ v.value = e.value /\ ~v.stale)
       /\ (now >= e.setAt + e.ttl /\ now < e.setAt + e.ttl + e.staleTTL)
              => (v.found /\ v.value = e.value /\ v.stale)
       /\ now >= e.setAt + e.ttl + e.staleTTL => ~v.found

\* The GC removes an entry only when its ttl + staleTTL have elapsed.
GcInTime(k) ==
    (step'.op = "gcTimer" /\ cache[k] # NoEntry /\ cache'[k] = NoEntry)
        => (cache[k].ttl >= 0 /\ now >= cache[k].setAt + cache[k].ttl + cache[k].staleTTL)

\* C3: an unlocked entry set with ttl T >= 0 and staleTTL S >= 0 at t0 is
\* reported fresh in [t0, t0+T), stale in [t0+T, t0+T+S) and undefined from
\* t0+T+S on; the GC does not remove it before t0+T+S; an entry set with
\* ttl < 0 is reported at all times and never removed by the GC.
C3_Windows ==
    /\ [](\A k \in AllKeys :
            (cache[k] # NoEntry /\ ~locks[k] /\ cache[k].ttl # Undef /\ cache[k].staleTTL # Undef) =>
                /\ (cache[k].ttl >= 0 /\ cache[k].staleTTL >= 0) => InWindows(k)
                /\ cache[k].ttl < 0 => (Reported(k).found /\ Reported(k).value = cache[k].value))
    /\ [][\A k \in AllKeys : GcInTime(k)]_vars

\* C3: an unlocked entry set with ttl 1 and staleTTL 1 has passed its fresh
\* and its stale window, and getState reports undefined for it.
C3_PastBothWindows ==
    \E k \in AllKeys :
        /\ cache[k] # NoEntry
        /\ ~locks[k]
        /\ cache[k].ttl = 1
        /\ cache[k].staleTTL = 1
        /\ now = cache[k].setAt + 2
        /\ ~Reported(k).found

\* The last handler was the rejection of a call of key k that finalised the
\* request as an error: the key left pending, the record (of a query) stays
\* with the error.  Every invocation made for the record has failed.
FinalisedAsError(k) ==
    /\ step.op = "reject"
    /\ step.key = k
    /\ step.ret.call.refs = <<0>>
    /\ ~isPending(Machine, k)
    /\ requests[k] # NoReq
    /\ requests[k].attempts = requests[k].runs

\* C4: when a request is finalised as an error, its request function was
\* invoked exactly `retries` times for it, and exactly once with retries unset.
C4_ExactlyRetriesAttempts ==
    \A k \in AllKeys :
        FinalisedAsError(k) =>
            requests[k].runs = (IF requests[k].options.retries # Undef
                                THEN requests[k].options.retries ELSE 1)

\* C4: a request with retries = 1 was finalised as an error after its
\* request function was invoked twice.
C4_TwoAttemptsForOne ==
    \E k \in AllKeys :
        /\ FinalisedAsError(k)
        /\ requests[k].options.retries = 1
        /\ requests[k].attempts = 2
        /\ requests[k].runs = 2

\* C5: no request is started, alone or as a member of a batch, while its
\* nextAttempt (from its delay or from a retry) is in the future.
C5_NeverEarly == \A i \in 1..Len(step.started) : step.started[i].early = {}

\* C5 as the code has it: the request the scheduler picks from the queue (a
\* request started alone, or the first key of a batch) is never started while
\* its nextAttempt is in the future.  The other members of a batch are taken
\* by findBatcher without a look at their nextAttempt.
C5_PickedNeverEarly ==
    \A i \in 1..Len(step.started) : step.started[i].keys[1] \notin step.started[i].early

\* C5: the wake-up timer started a request whose nextAttempt, set by its
\* delay or by a retry, has been reached.
C5_StartedWhenDue ==
    /\ step.op = "pushTimer"
    /\ \E i \in 1..Len(step.started) :
           /\ requests[step.started[i].keys[1]] # NoReq
           /\ requests[step.started[i].keys[1]].nextAttempt # Undef
           /\ requests[step.started[i].keys[1]].nextAttempt <= now
           /\ step.started[i].early = {}

\* C6: whenever the scheduler starts a request, no other eligible request
\* (pending, not fetching, nextAttempt elapsed) ranks strictly higher, a
\* mutation ranking above every query and a higher priority above a lower or
\* unset one.
C6_HighestRankFirst == \A i \in 1..Len(step.started) : ~step.started[i].outranked

\* C6: a request was started while a request of strictly higher rank was
\* waiting and eligible.
C6_StartedOutranked ==
    \E i \in 1..Len(step.started) :
        /\ step.started[i].outranked
        /\ \E q \in AllKeys :
               /\ Eligible(Machine, q)
               /\ requests[step.started[i].keys[1]] # NoReq
               /\ Higher(requests[q], requests[step.started[i].keys[1]])

\* Calls whose result is still awaited and will be applied (a cancelled call
\* of a single request, whose outcome is dropped, is not counted).
Awaited == Len(calls)

\* C7: with maxParallelRequests = M >= 0 held constant, the number of calls
\* whose results are awaited, a batch counting as one, never grows beyond M.
C7_WithinLimit ==
    [][(maxParallelRequests' = maxParallelRequests /\ maxParallelRequests >= 0 /\
        Awaited <= maxParallelRequests)
       => Awaited' <= maxParallelRequests]_vars

\* C7: the limit is 1, a batcher call is awaited, and a second call was
\* started by a request() for a key cancelled out of the batch.
C7_TwoCallsUnderLimitOne ==
    /\ maxParallelRequests = 1
    /\ Len(calls) = 2
    /\ step.op = "request"
    /\ step.started # <<>>
    /\ \E c \in 1..Len(calls) : calls[c].kind = "batch" /\ calls[c].cut # {}

\* C8: while maxParallelRequests is 0 no handler starts a call.
C8_PausedAtZero == maxParallelRequests = 0 => step.started = <<>>

\* C8: maxParallelRequests is 0 and a request() has just invoked the request
\* function of its key.
C8_StartedAtZero ==
    /\ maxParallelRequests = 0
    /\ step.op = "request"
    /\ Invoked(step.started, step.key) = 1

\* C10: when a batcher call settles, no key of the call for which cancel was
\* called meanwhile has its cache entry written, the attempts or error of its
\* record changed, or is removed from pending or fetching.
C10_OutcomeDiscarded ==
    [][step'.op = "batchDone" =>
        \A k \in step'.ret.call.cut :
            /\ cache'[k] = cache[k]
            /\ requests[k] # NoReq =>
                   /\ requests'[k] # NoReq
                   /\ requests'[k].attempts = requests[k].attempts
                   /\ requests'[k].error = requests[k].error
            /\ isPending(Machine, k) => isPending(Machine, k)'
            /\ isFetching(Machine, k) => isFetching(Machine, k)']_vars

\* C10: a batcher call settled with data for a key cancelled while the call
\* was in flight, and the data was written to the cache.
C10_CancelledResultCached ==
    /\ step.op = "batchDone"
    /\ \E k \in step.ret.call.cut :
           \E i \in 1..Len(step.ret.call.keys) :
               /\ step.ret.call.keys[i] = k
               /\ step.ret.res[i].kind = "data"
               /\ cache[k] # NoEntry

\* C9: cancel(key) of a request that is pending and not yet fetching leaves
\* the key out of pending, and the request function is never invoked for
\* that record afterwards.
C9_CancelledNeverRuns ==
    /\ (step.op = "cancel" /\ step.ret.waiting) => ~isPending(Machine, step.key)
    /\ \A i \in 1..Len(step.started) :
           \A j \in 1..Len(step.started[i].keys) :
               requests[step.started[i].keys[j]] # NoReq => ~requests[step.started[i].keys[j]].barred

\* C9: the request function was invoked for a record for which cancel(key)
\* was called while it was pending and not fetching.
C9_RanAfterCancel ==
    /\ step.op = "pushTimer"
    /\ pending = <<"k1">>
    /\ Invoked(step.started, "k1") = 1
    /\ requests["k1"] # NoReq
    /\ requests["k1"].barred
    /\ requests["k1"].runs = 1

\* C11: cancel(key) of a key that has a record and is pending or fetching
\* returns true and leaves the key out of pending and out of fetching, also
\* for a record cancelled earlier and enqueued again by refetchByKey.
C11_CancelOfQueuedKey ==
    (step.op = "cancel" /\ (step.ret.waiting \/ step.ret.flying)) =>
        /\ step.ret.ok
        /\ ~isPending(Machine, step.key)
        /\ ~isFetching(Machine, step.key)

\* C11: cancel(key) returned false for a key that is pending with a record
\* flagged cancelled by an earlier cancel, and the key is still pending.
C11_CancelRefused ==
    /\ step.op = "cancel"
    /\ step.ret.waiting
    /\ ~step.ret.ok
    /\ pending = <<step.key>>
    /\ requests[step.key] # NoReq
    /\ requests[step.key].cancelled

\* C12 (as the specification words it): a cancel(key) of a key that has a
\* record and is pending or fetching removes the record exactly when the
\* record is a mutation or the cache has no entry for the key, and the state
\* of a record that is kept still carries the cached value.
C12_CancelStep ==
    (step'.op = "cancel" /\ (step'.ret.waiting \/ step'.ret.flying)) =>
        LET k == step'.key
        IN /\ (requests'[k] = NoReq) <=>
                  (requests[k].options.type = "mutation" \/ cache[k] = NoEntry)
           /\ requests'[k] # NoReq =>
                  /\ state(Machine', k).hasData
                  /\ state(Machine', k).data = cache'[k].value

C12_KeptRecordHasData == [][C12_CancelStep]_vars

\* C12 (amended): a cancel(key) of a key that has a record and is pending or
\* fetching removes the record exactly when the record is a mutation or the
\* cache has no entry for the key (cache.has, which counts an expired entry
\* that is not swept yet); the state of a record that is kept carries the
\* cached value whenever cache.getState still yields the entry.
C12_EntryStep ==
    (step'.op = "cancel" /\ (step'.ret.waiting \/ step'.ret.flying)) =>
        LET k == step'.key
        IN /\ (requests'[k] = NoReq) <=>
                  (requests[k].options.type = "mutation" \/ ~has(Machine, k))
           /\ (requests'[k] # NoReq /\ getState(Machine', k).found) =>
                  /\ state(Machine', k).hasData
                  /\ state(Machine', k).data = cache'[k].value

C12_RecordKeptIffEntry == [][C12_EntryStep]_vars

\* C12: a cancel has just kept the record of a waiting query whose key has a
\* cache entry, and the state of the key carries the cached value.
C12_KeptWithData ==
    /\ step.op = "cancel"
    /\ step.key = "k1"
    /\ step.ret.ok
    /\ step.ret.waiting
    /\ requests["k1"] # NoReq
    /\ requests["k1"].cancelled
    /\ state(Machine, "k1").hasData
    /\ state(Machine, "k1").data = 2

\* The keys of a sequence of keys
KeysOf(keys) == {keys[i] : i \in 1..Len(keys)}

\* A tagged query that waits: pending, not fetching, with a record.
WaitsTagged(q) ==
    /\ Has(pending, q)
    /\ ~Has(fetching, q)
    /\ requests[q] # NoReq
    /\ requests[q].options.type = "query"
    /\ requests[q].options.tagged

\* C13, the start: a batcher call bundles two or more distinct keys, each
\* moved to fetching, none of them started by another call of the same step;
\* the batcher gets the argument tuples in the order of the keys; and a tagged
\* query is started alone only when no other tagged query waits.
C13_Started ==
    \A x \in 1..Len(step.started) :
        LET s == step.started[x]
        IN /\ s.kind = "batch" =>
                 /\ Len(s.keys) >= 2
                 /\ Cardinality(KeysOf(s.keys)) = Len(s.keys)
                 /\ \A i \in 1..Len(s.keys) :
                        /\ s.args[i] = ArgsOf(s.keys[i])
                        /\ Has(fetching, s.keys[i])
                 /\ \A y \in 1..Len(step.started) :
                        y # x => KeysOf(step.started[y].keys) \cap KeysOf(s.keys) = {}
           /\ (s.kind = "single" /\ batchers # <<>> /\ requests[s.keys[1]] # NoReq
                  /\ requests[s.keys[1]].options.tagged) =>
                 \A q \in AllKeys \ {s.keys[1]} : ~WaitsTagged(q)

\* C13, the results: when a batcher resolves with one entry of data or error
\* per key, the data at position i is the cached value of key i afterwards and
\* the error at position i is the error of the record of key i.
C13_Applied ==
    (step'.op = "batchSettle" /\ ~step'.ret.rejected
        /\ Len(step'.ret.res) = Len(step'.ret.call.keys)
        /\ \A i \in 1..Len(step'.ret.res) : step'.ret.res[i].kind # "none") =>
        \A i \in 1..Len(step'.ret.res) :
            LET k == step'.ret.call.keys[i]
                e == step'.ret.res[i]
            IN /\ e.kind = "data" => (cache'[k] # NoEntry /\ cache'[k].value = e.value)
               /\ e.kind = "error" => (requests'[k] # NoReq /\ requests'[k].error = e.value
                                          /\ cache'[k] = cache[k])

\* C13: queries that match a batcher and wait together are started by one
\* batcher call with their arguments in the order of the keys, result i is
\* applied to request i, and a query that matches alone runs single.
C13_BundledInOrder == [](C13_Started) /\ [][C13_Applied]_vars

\* C13: a batcher call over three keys has resolved with data 2, an error and
\* data 1, and the first and third key hold their own value.
C13_ThreeApplied ==
    /\ step.op = "batchSettle"
    /\ Len(step.ret.call.keys) = 3
    /\ Len(step.ret.res) = 3
    /\ step.ret.res[1] = [kind |-> "data", value |-> 2]
    /\ step.ret.res[2].kind = "error"
    /\ step.ret.res[3] = [kind |-> "data", value |-> 1]
    /\ cache[step.ret.call.keys[1]].value = 2
    /\ cache[step.ret.call.keys[3]].value = 1

\* A batcher result that breaks the contract: resolved, with a number of
\* entries other than the number of keys, or with an entry that has neither
\* data nor error.
Malformed(ret) ==
    /\ ~ret.rejected
    /\ \/ Len(ret.res) # Len(ret.call.keys)
       \/ \E i \in 1..Len(ret.res) : ret.res[i].kind = "none"

\* C14, one step: a batcher call that settles with a malformed result leaves
\* every request of the batch with the failure as its error, one attempt more,
\* out of pending and fetching, and writes no result of the call to the cache.
C14_MalformedStep ==
    (step'.op = "batchSettle" /\ Malformed(step'.ret)) =>
        \A i \in 1..Len(step'.ret.call.keys) :
            LET k == step'.ret.call.keys[i]
            IN /\ requests'[k] # NoReq
               /\ requests'[k].error = 9
               /\ requests'[k].attempts = requests[k].attempts + 1
               /\ ~Has(fetching', k)
               /\ cache'[k] = cache[k]

\* C14: a malformed batcher result is applied as an error to every request of
\* the batch, and no request of the batch ends the call in a success state.
C14_AllFailNoneSucceeds == [][C14_MalformedStep]_vars

\* C14: a batcher call has settled with data for its first key and an entry
\* with neither data nor error after it; the first key holds the data in the
\* cache and its record carries the failure.
C14_CachedAndFailed ==
    /\ step.op = "batchSettle"
    /\ Malformed(step.ret)
    /\ Len(step.ret.res) = Len(step.ret.call.keys)
    /\ step.ret.res[1] = [kind |-> "data", value |-> 2]
    /\ step.ret.res[2].kind = "none"
    /\ cache[step.ret.call.keys[1]] # NoEntry
    /\ cache[step.ret.call.keys[1]].value = 2
    /\ requests[step.ret.call.keys[1]] # NoReq
    /\ requests[step.ret.call.keys[1]].error = 9

\* The notifications of a step that tell the listeners of `key` that its
\* request was finalized with `reason`.
Told(key, reason) ==
    {n \in 1..Len(step.notified) : step.notified[n].key = key /\ step.notified[n].reason = reason}

\* C15, the listeners: when a batcher call settles, the listeners of a key of
\* the batch are told once that its request finished, as a success or as an
\* error, never both.
C15_ToldOnce ==
    step.op = "batchSettle" =>
        \A i \in 1..Len(step.ret.call.keys) :
            LET k == step.ret.call.keys[i]
            IN subs[k] > 0 =>
                   Cardinality(Told(k, "success")) + Cardinality(Told(k, "error")) = 1

\* C15, the records: when a batcher call settles, a request of the batch
\* either has its data written to the cache or gets one attempt more with the
\* error, never both and never twice; an entry with data succeeds its own
\* request and an entry with an error fails its own request.
C15_SettleStep ==
    step'.op = "batchSettle" =>
        \A i \in 1..Len(step'.ret.call.keys) :
            LET k == step'.ret.call.keys[i]
                ok == cache'[k] # cache[k]
                failed == requests'[k].attempts - requests[k].attempts
                wellFormed == ~Malformed(step'.ret) /\ ~step'.ret.rejected
            IN /\ requests'[k] # NoReq
               /\ failed \in {0, 1}
               /\ ok <=> failed = 0
               /\ wellFormed => (ok <=> step'.ret.res[i].kind = "data")

\* C15: whatever a batcher call settles with, each request of the batch is
\* finalized exactly once, as a success or as an error.
C15_FinalizedOnce == [](C15_ToldOnce) /\ [][C15_SettleStep]_vars

\* C15: one batcher result has finalized the request of k1 as a success and
\* then as an error: its listeners were told of both.
C15_SuccessThenError ==
    /\ step.op = "batchSettle"
    /\ subs["k1"] > 0
    /\ Told("k1", "success") # {}
    /\ Told("k1", "error") # {}
    /\ \A a \in Told("k1", "success"), b \in Told("k1", "error") : a < b

\* C16, one step: a GC sweep does not remove the cache entry of a key that has
\* a listener.
C16_SweepStep ==
    step'.op = "gcTimer" =>
        \A k \in AllKeys : (subs[k] > 0 /\ cache[k] # NoEntry) => cache'[k] # NoEntry

\* C16: while a key has a per-key listener, no GC sweep removes its cache
\* entry, whatever requests, refetches and clearCache calls came before; the
\* entry is swept only when the key has no listener.
C16_HeldWhileSubscribed == [][C16_SweepStep]_vars

\* C16: a GC sweep has just removed the entry of k1 and emitted Expire for it
\* while k1 has a listener.
C16_SweptWhileSubscribed ==
    /\ step.op = "gcTimer"
    /\ subs["k1"] > 0
    /\ cache["k1"] = NoEntry
    /\ \E n \in 1..Len(step.emitted) : step.emitted[n] = [key |-> "k1", change |-> "expire"]

\* An entry whose expiry has elapsed
Elapsed(k) == cache[k] # NoEntry /\ cache[k].expiresAt # Undef /\ now >= cache[k].expiresAt

\* C17, one step: a GC sweep leaves a locked entry in place, has() and
\* getState still yield it; unlock of an entry whose expiry has elapsed leaves
\* a GC run scheduled; a sweep removes an unlocked entry whose expiry has
\* elapsed and emits Expire for it.
C17_LockStep ==
    \A k \in AllKeys :
        /\ (step'.op = "gcTimer" /\ locks[k] /\ cache[k] # NoEntry) =>
               /\ cache'[k] = cache[k]
               /\ locks'[k]
               /\ has(Machine', k)
               /\ getState(Machine', k).found
               /\ getState(Machine', k).value = cache[k].value
        /\ (step'.op = "unlock" /\ step'.key = k /\ locks[k] /\ Elapsed(k)) =>
               (gcPending' /\ ~locks'[k] /\ cache'[k] = cache[k])
        /\ (step'.op = "gcTimer" /\ ~locks[k] /\ Elapsed(k)) =>
               /\ cache'[k] = NoEntry
               /\ \E n \in 1..Len(step'.emitted) : step'.emitted[n] = [key |-> k, change |-> "expire"]

\* C17: a locked entry survives every GC sweep and stays readable; after
\* unlock of an expired entry a GC run is scheduled and the next sweep removes
\* the entry and emits Expire.
C17_LockedSurvives == [][C17_LockStep]_vars

\* C17: a GC sweep has just passed over the locked entry of k1 after its
\* expiry, and the entry is still there and readable.
C17_SweptOverLocked ==
    /\ step.op = "gcTimer"
    /\ locks["k1"]
    /\ Elapsed("k1")
    /\ getState(Machine, "k1").found
    /\ ~gcPending

\* The number of times key k is listed under tag t
TimesListed(t, k) == Cardinality({i \in 1..Len(tags[t]) : tags[t][i] = k})

\* Tag t is in the tags of the entry of k
Carries(k, t) == cache[k] # NoEntry /\ cache[k].tagged /\ Has(cache[k].tags, t)

\* C18: the tag index and the entries agree: key k is listed under tag t
\* exactly once when an entry for k exists and carries t, and not at all
\* otherwise.
C18_IndexMatchesEntries ==
    \A t \in TagNames, k \in AllKeys :
        TimesListed(t, k) = (IF Carries(k, t) THEN 1 ELSE 0)

\* C18: after a clear of k1, k1 has no entry and is still listed under tag t.
C18_ListedWithoutEntry ==
    /\ step.op = "clear"
    /\ step.key = "k1"
    /\ step.ret
    /\ cache["k1"] = NoEntry
    /\ TimesListed("t", "k1") > 0

\* The keys findByTags is specified to return: those with an entry that
\* carries every tag of ts (All), at least one (Any), none (None), and that
\* the check predicate accepts.
Expected(ts, match, check) ==
    {k \in check :
        /\ cache[k] # NoEntry
        /\ IF match = "All" THEN \A i \in 1..Len(ts) : Carries(k, ts[i])
           ELSE IF match = "Any" THEN \E i \in 1..Len(ts) : Carries(k, ts[i])
           ELSE \A i \in 1..Len(ts) : ~Carries(k, ts[i])}

\* C19: in a cache filled by set calls, findByTags returns exactly the keys
\* whose entry carries all (All), one (Any) or none (None) of the tags,
\* narrowed by the check predicate.
C19_FindsExactly ==
    \A ts \in TagLists, match \in TagMatches, check \in Checks :
        KeysOf(findByTags(Machine, ts, match, check)) = Expected(ts, match, check)

\* C19: k1 was set again without tag t, and findByTags(['t'], All) and
\* findByTags(['t'], Any) still return k1.
C19_FindsFormerTag ==
    /\ step.op = "setTags"
    /\ step.key = "k1"
    /\ step.ret.was
    /\ ~Carries("k1", "t")
    /\ Has(findByTags(Machine, <<"t">>, "All", AllKeys), "k1")
    /\ Has(findByTags(Machine, <<"t">>, "Any", AllKeys), "k1")

\* C20, one step: clear(key) returns true exactly when the key had an entry,
\* leaves no entry for the key and emits Clear once when there was one and
\* nothing otherwise; clearByTags leaves no entry for the keys findByTags
\* returned, returns the number of entries it removed, and a findByTags with
\* the same All or Any arguments finds no key afterwards.
C20_ClearStep ==
    /\ step'.op = "clear" =>
           /\ step'.ret = (cache[step'.key] # NoEntry)
           /\ cache'[step'.key] = NoEntry
           /\ step'.emitted = IF step'.ret THEN <<[key |-> step'.key, change |-> "clear"]>> ELSE <<>>
    /\ step'.op = "clearByTags" =>
           /\ \A k \in KeysOf(step'.ret.collected) : cache'[k] = NoEntry
           /\ step'.ret.count = Cardinality({k \in AllKeys : cache[k] # NoEntry /\ cache'[k] = NoEntry})
           /\ step'.ret.match \in {"All", "Any"} =>
                  findByTags(Machine', step'.ret.tags, step'.ret.match, step'.ret.check) = <<>>

\* C20: clear removes the entry, tells of it once and returns true (false and
\* nothing for an absent key); clearByTags removes what findByTags returns,
\* returns that number, and leaves nothing for the same findByTags to find.
C20_ClearedForGood == [][C20_ClearStep]_vars

\* C20: clearByTags(['t'], All) has removed the entry of k1, and
\* findByTags(['t'], All) still returns k1.
C20_FoundAfterClearByTags ==
    /\ step.op = "clearByTags"
    /\ step.ret.tags = <<"t">>
    /\ step.ret.match = "All"
    /\ step.ret.check = AllKeys
    /\ Has(step.ret.collected, "k1")
    /\ cache["k1"] = NoEntry
    /\ Has(findByTags(Machine, <<"t">>, "All", AllKeys), "k1")

\* The record of key k is a mutation
IsMutation(k) == requests[k] # NoReq /\ requests[k].options.type = "mutation"

\* C21, one step: a request of a mutation returns no cached data and leaves
\* the cache alone; its call settling, its cancel and the wake-up timer leave
\* the cache and the tag index alone; refetchByKey of a mutation key returns
\* false and refetchByKey and refetchByTags start and enqueue nothing for it.
C21_MutationStep ==
    LET k == step'.key
    IN /\ (step'.op = "request" /\ step'.opts.type = "mutation") =>
              (~step'.ret.hasData /\ cache' = cache /\ tags' = tags)
       /\ (step'.op \in {"resolve", "reject"}
             /\ Obj(Machine, k, step'.ret.call.refs[1]).options.type = "mutation") =>
              (cache' = cache /\ tags' = tags)
       /\ (step'.op \in {"cancel", "pushTimer", "dropped"}) =>
              (cache' = cache /\ tags' = tags)
       /\ (step'.op = "refetchByKey" /\ IsMutation(k)) =>
              (~step'.ret /\ step'.started = <<>> /\ pending' = pending /\ requests' = requests)
       /\ (step'.op = "refetchByTags") =>
              \A q \in AllKeys : IsMutation(q) =>
                  /\ Invoked(step'.started, q) = 0
                  /\ pending' = pending
                  /\ requests'[q] = requests[q]

\* C21: a mutation never reads or writes the cache: the state of a mutation
\* key carries no cached data, no step of a mutation changes the cache, and
\* refetchByKey and refetchByTags never run a mutation again.
C21_MutationsBypassCache ==
    [](\A k \in AllKeys : IsMutation(k) => ~state(Machine, k).hasData) /\ [][C21_MutationStep]_vars

\* C21: refetchByTags has found the key of a waiting mutation in the tag index
\* through the cache entry of that key, and has not run it.
C21_MutationKeyFoundByTag ==
    /\ step.op = "refetchByTags"
    /\ Has(step.ret.collected, "k2")
    /\ IsMutation("k2")
    /\ cache["k2"] # NoEntry
    /\ step.started = <<>>

\* The key is waiting or in flight
Queued(k) == Has(pending, k) \/ Has(fetching, k)

\* C22 as amended, one step: a request of a mutation makes a new record and
\* enqueues it exactly when the key has no record or its record is cancelled
\* or expired; over a live record it changes neither records nor queues.
C22_RequestStep ==
    LET k == step'.key
        live == requests[k] # NoReq /\ ~requests[k].cancelled /\ ~requests[k].expired
    IN (step'.op = "request" /\ step'.opts.type = "mutation") =>
          /\ step'.ret.restarted <=> ~live
          /\ ~live => (requests'[k] # NoReq /\ requests'[k].options = step'.opts
                        /\ requests'[k].attempts = 0 /\ (Has(pending', k) \/ Has(fetching', k)))
          /\ live => (requests' = requests /\ pending' = pending /\ fetching' = fetching
                       /\ step'.started = <<>>)

\* C22 as amended: a mutation request makes and enqueues a new record only when
\* the key has no live record; a live record of the key is reused untouched.
C22_NewRecordUnlessLive == [][C22_RequestStep]_vars

\* C22: a mutation was requested on a key whose query is in flight, and the
\* record of the query is still the one registered.
C22_MutationOverFlyingQuery ==
    /\ step.op = "request"
    /\ step.opts.type = "mutation"
    /\ ~step.ret.restarted
    /\ requests["k2"] # NoReq
    /\ requests["k2"].options.type = "query"
    /\ Has(fetching, "k2")

\* C22 as stated: every request of a mutation makes a new record and enqueues it.
C22_AlwaysNewRecord ==
    [][(step'.op = "request" /\ step'.opts.type = "mutation") =>
          (step'.ret.restarted /\ requests'[step'.key] # NoReq
           /\ requests'[step'.key].options.type = "mutation"
           /\ (Has(pending', step'.key) \/ Has(fetching', step'.key)))]_vars

\* The failure of one more attempt of the request object is final: its retries
\* are used up or its retryDecay is false
LastAttempt(req) ==
    ~((IF req.options.retries # Undef THEN req.options.retries ELSE 0) >= req.attempts + 1
      /\ req.options.retryDecay # DecayFalse)

\* The notifications of a step about key k
About(notified, k) == SelectSeq(notified, LAMBDA n : n.key = k)

\* C23, one step: a mutation that succeeds, or fails for good, is removed and
\* its listeners are told once, with the result or the error as the state; a
\* query that fails for good keeps its record with the error and leaves both
\* queues.
C23_FinishStep ==
    LET k == step'.key
        req == Obj(Machine, k, step'.ret.call.refs[1])
        told == About(step'.notified, k)
    IN /\ (step'.op = "resolve" /\ req.options.type = "mutation") =>
              /\ requests'[k] = NoReq
              /\ ~state(Machine', k).found
              /\ subs[k] > 0 =>
                     /\ Len(told) = 1
                     /\ told[1].reason = "success"
                     /\ told[1].state.hasData /\ told[1].state.data = step'.ret.res
                     /\ ~told[1].state.pending /\ ~told[1].state.fetching
       /\ (step'.op = "reject" /\ req.options.type = "mutation" /\ LastAttempt(req)) =>
              /\ requests'[k] = NoReq
              /\ ~state(Machine', k).found
              /\ subs[k] > 0 =>
                     /\ Len(told) = 1
                     /\ told[1].reason = "error"
                     /\ told[1].state.error = step'.ret.res
                     /\ ~told[1].state.pending /\ ~told[1].state.fetching
       /\ (step'.op = "reject" /\ req.options.type = "query" /\ LastAttempt(req)) =>
              /\ requests'[k] # NoReq
              /\ requests'[k].error = step'.ret.res
              /\ state(Machine', k).error = step'.ret.res
              /\ ~Has(pending', k) /\ ~Has(fetching', k)

\* C23: a finished mutation is delivered once and its record removed, so that
\* state(key) is undefined; a query that failed for good keeps its record and
\* its error and is neither pending nor fetching.
C23_MutationRemovedQueryKept == [][C23_FinishStep]_vars

\* C23: the retried mutation k2 has just failed for good, its listener was told
\* of the error and its record is gone, while the query k1, which failed for
\* good after one retry, still has its record and its error.
C23_BothFailedForGood ==
    /\ step.op = "reject"
    /\ step.key = "k2"
    /\ Len(About(step.notified, "k2")) = 1
    /\ About(step.notified, "k2")[1].reason = "error"
    /\ About(step.notified, "k2")[1].state.error = 1
    /\ requests["k2"] = NoReq
    /\ requests["k1"] # NoReq
    /\ requests["k1"].attempts = 2
    /\ requests["k1"].error = 1
    /\ ~Queued("k1")

\* C24: when a fetch of a query is finalized as success, state(key) reports no
\* error afterwards.
C24_SuccessClearsError ==
    [][(step'.op = "resolve" /\ requests'[step'.key] # NoReq
        /\ requests'[step'.key].options.type = "query")
       => state(Machine', step'.key).error = 0]_vars

\* C24: the query k1 failed once, was retried and has just succeeded: its value
\* is cached, it is neither pending nor fetching, and state(k1) still reports
\* the error of the first attempt.
C24_ErrorAfterSuccess ==
    /\ step.op = "resolve"
    /\ step.key = "k1"
    /\ step.ret.call.refs = <<0>>
    /\ state(Machine, "k1").hasData
    /\ ~Queued("k1")
    /\ state(Machine, "k1").error = 1

\* C25, one step: updateCache of a key with a record and a listener stores the
\* value, tells the listeners once with reason manual and the new value, and
\* leaves the queues and the calls in flight as they were.
C25_UpdateStep ==
    LET k == step'.key
    IN (step'.op = "updateCache" /\ requests[k] # NoReq /\ subs[k] > 0) =>
          /\ unpackCacheValue(Machine', k).found /\ unpackCacheValue(Machine', k).value = step'.ret
          /\ Len(step'.notified) = 1
          /\ step'.notified[1].key = k
          /\ step'.notified[1].reason = "manual"
          /\ step'.notified[1].state.data = step'.ret
          /\ step'.notified[1].subs = subs[k]
          /\ step'.started = <<>>
          /\ pending' = pending /\ fetching' = fetching /\ calls' = calls

\* C25: updateCache on a subscribed key with a record replaces the cached
\* value, notifies with reason manual and starts no fetch.
C25_ManualUpdateNoFetch == [][C25_UpdateStep]_vars

\* C25: the cached value of the subscribed key k1 was replaced by 2 while its
\* fetch was in flight, and its listener was told with reason manual.
C25_UpdatedInFlight ==
    /\ step.op = "updateCache"
    /\ step.key = "k1"
    /\ step.ret = 2
    /\ subs["k1"] > 0
    /\ Has(fetching, "k1")
    /\ Len(calls) = 1
    /\ step.notified # <<>>
    /\ step.notified[1].reason = "manual"
    /\ cache["k1"].value = 2

\* C26, one step: a fetch of a query with an equalityCheck that resolves with
\* the payload the cache holds writes nothing to the cache (entry, tag index
\* and scheduled sweep are as before), tells the listeners of a success and
\* leaves the key neither pending nor fetching.
C26_EqualStep ==
    LET k == step'.key
        req == Obj(Machine, k, step'.ret.call.refs[1])
    IN (step'.op = "resolve" /\ req.options.type = "query" /\ req.options.equalityCheck
        /\ get(Machine, k).found /\ get(Machine, k).value = step'.ret.res) =>
          /\ cache' = cache /\ tags' = tags /\ gcPending' = gcPending /\ gcDue' = gcDue
          /\ unpackCacheValue(Machine', k) = unpackCacheValue(Machine, k)
          /\ subs[k] > 0 =>
                 /\ Len(About(step'.notified, k)) = 1
                 /\ About(step'.notified, k)[1].reason = "success"
          /\ ~Has(pending', k) /\ ~Has(fetching', k)

\* C26: a refetch that succeeds with a payload equal to the cached one does
\* not write the cache and is still finalized and notified as a success.
C26_EqualPayloadNotWritten == [][C26_EqualStep]_vars

\* C26: the refetch of the subscribed key k1 has resolved with the value that
\* updateCache had stored; the entry is still the untagged one updateCache
\* wrote, and the listener was told of the success.
C26_EqualRefetchDone ==
    /\ step.op = "resolve"
    /\ step.key = "k1"
    /\ step.ret.res = 1
    /\ requests["k1"] # NoReq
    /\ requests["k1"].options.equalityCheck
    /\ cache["k1"] # NoEntry
    /\ cache["k1"].value = 1
    /\ ~cache["k1"].tagged
    /\ Len(About(step.notified, "k1")) = 1
    /\ About(step.notified, "k1")[1].reason = "success"
    /\ ~Queued("k1")

\* The reasons of the notifications of a step about key k, in order
Reasons(notified, k) == [i \in 1..Len(About(notified, k)) |-> About(notified, k)[i].reason]

\* The notification the position of key k in the queues stands for: the last
\* one sent about a key in flight is fetching, about a key that waits for its
\* first attempt pending, about a key that waits for a retry the failure.
Stage(k) ==
    IF Has(fetching, k) THEN "fetching"
    ELSE IF Has(pending, k) THEN (IF requests[k] # NoReq /\ requests[k].attempts > 0
                                  THEN "retry" ELSE "pending")
    ELSE "idle"

\* The order of the notifications of one key: retry stands for fetching:false
\* with error:true, success and error for the terminal notifications.
Follows(a, b) ==
    \/ a \in {"idle", "success", "error"} /\ b = "pending"
    \/ a \in {"pending", "retry"} /\ b = "fetching"
    \/ a = "fetching" /\ b \in {"retry", "success", "error"}

InOrder(chain) == \A i \in 1..(Len(chain) - 1) : Follows(chain[i], chain[i + 1])

\* C27, one step, for a query k: the notifications of the step continue the
\* order from the stage the key was in; with a listener, entering pending is
\* told as pending, entering fetching as fetching, and leaving fetching is told
\* by exactly one notification, a retry if the key still waits and a terminal
\* one otherwise.
C27_OrderStep ==
    \A k \in AllKeys :
        (requests'[k] # NoReq /\ requests'[k].options.type = "query") =>
            /\ InOrder(<<Stage(k)>> \o Reasons(step'.notified, k))
            /\ subs[k] > 0 =>
                   /\ (~Has(pending, k) /\ Has(pending', k)) => Has(Reasons(step'.notified, k), "pending")
                   /\ (~Has(fetching, k) /\ Has(fetching', k)) => Has(Reasons(step'.notified, k), "fetching")
                   /\ (Has(fetching, k) /\ ~Has(fetching', k)) =>
                          /\ Len(Reasons(step'.notified, k)) = 1
                          /\ Has(pending', k) <=> Reasons(step'.notified, k) = <<"retry">>
                          /\ ~Has(pending', k) <=> Reasons(step'.notified, k)[1] \in {"success", "error"}

\* C27: the listeners of a query hear pending, then fetching, then for every
\* failure that is retried the failure and a new fetching without a second
\* pending, and at last one terminal notification.
C27_NotifiedInOrder == [][C27_OrderStep]_vars

\* C27: the subscribed query k1 failed once, was run a second time and has
\* just succeeded, which its listener was told as the one notification of
\* the step.
C27_FailedOnceThenSucceeded ==
    /\ step.op = "resolve"
    /\ step.key = "k1"
    /\ subs["k1"] > 0
    /\ requests["k1"].attempts = 1
    /\ requests["k1"].runs = 2
    /\ Reasons(step.notified, "k1") = <<"success">>
    /\ Stage("k1") = "idle"

\* The deliveries of a notification to per-key listeners (to = "sub") or to
\* broadcast listeners (to = "broad"), in the order they were made
HeardBy(n, to) == SelectSeq(n.heard, LAMBDA d : d.to = to)

\* Every delivery to a per-key listener precedes every delivery to a broadcast listener
SubsFirst(n) ==
    \A i, j \in 1..Len(n.heard) : (n.heard[i].to = "sub" /\ n.heard[j].to = "broad") => i < j

\* The listeners called, in order, whether they threw or not
Called(heard) == [x \in 1..Len(heard) |-> <<heard[x].to, heard[x].who>>]

\* C28: in every dispatch the per-key listeners are called before the broadcast
\* listeners; the listeners called are those that would be called if none of
\* them threw, so that when no hook vetoes every per-key and every broadcast
\* listener is called; and no exception leaves the handler.
C28_ThrowingListenerIsolated ==
    /\ ~step.thrown
    /\ \A i \in 1..Len(step.notified) :
          /\ SubsFirst(step.notified[i])
          /\ Called(step.notified[i].heard) =
                 Called(dispatch(step.notified[i].subs, step.notified[i].broad,
                                 [step.notified[i].manners EXCEPT !.subThrows = {}, !.broadThrows = {}]).heard)
          /\ (step.notified[i].manners.subVeto = {} /\ step.notified[i].manners.broadVeto = {}) =>
                 /\ {d.who : d \in {HeardBy(step.notified[i], "sub")[x] : x \in 1..Len(HeardBy(step.notified[i], "sub"))}}
                      = 1..step.notified[i].subs
                 /\ {d.who : d \in {HeardBy(step.notified[i], "broad")[x] : x \in 1..Len(HeardBy(step.notified[i], "broad"))}}
                      = 1..step.notified[i].broad

\* C28: the first of two per-key listeners and the first of two broadcast
\* listeners threw, and the second of each was still called, the per-key
\* listeners first; the request that caused the dispatch went on to start.
C28_BothThrewAllHeard ==
    /\ step.op = "request"
    /\ ~step.thrown
    /\ Len(step.notified) = 2
    /\ step.notified[1].manners = [Polite EXCEPT !.subThrows = {1}, !.broadThrows = {1}]
    /\ step.notified[1].heard = << [to |-> "sub", who |-> 1, threw |-> TRUE],
                                   [to |-> "sub", who |-> 2, threw |-> FALSE],
                                   [to |-> "broad", who |-> 1, threw |-> TRUE],
                                   [to |-> "broad", who |-> 2, threw |-> FALSE] >>
    /\ step.notified[2].reason = "fetching"
    /\ Has(fetching, "k1")

\* C29: a veto of a hook suppresses the delivery to that listener only: every
\* per-key listener and every broadcast listener the hook does not veto is
\* called in every dispatch.
C29_VetoSuppressesOnlyOne ==
    \A i \in 1..Len(step.notified) :
        /\ \A w \in (1..step.notified[i].subs) \ step.notified[i].manners.subVeto :
               \E x \in 1..Len(step.notified[i].heard) :
                   step.notified[i].heard[x].to = "sub" /\ step.notified[i].heard[x].who = w
        /\ \A w \in (1..step.notified[i].broad) \ step.notified[i].manners.broadVeto :
               \E x \in 1..Len(step.notified[i].heard) :
                   step.notified[i].heard[x].to = "broad" /\ step.notified[i].heard[x].who = w

\* C29: onNotifySub returned false for the first of two per-key listeners of
\* k1, and neither the second per-key listener nor the broadcast listener,
\* which no hook vetoed, was called.
C29_VetoSilencedAll ==
    /\ step.op = "updateCache"
    /\ Len(step.notified) = 1
    /\ step.notified[1].subs = 2
    /\ step.notified[1].broad = 1
    /\ step.notified[1].manners = [Polite EXCEPT !.subVeto = {1}]
    /\ step.notified[1].heard = <<>>

\* C30, one step: when clearCache, clearCacheByTags or a sweep removes the
\* cache entry of a key that has a record, the record is removed, state(key)
\* is undefined, and every per-key and broadcast listener is told with reason
\* expired.
C30_ExpireStep ==
    \A k \in AllKeys :
        (step'.op \in {"clearCache", "clearByTags", "gcTimer"}
         /\ cache[k] # NoEntry /\ cache'[k] = NoEntry /\ requests[k] # NoReq) =>
            /\ requests'[k] = NoReq
            /\ ~state(Machine', k).found
            /\ (subs[k] > 0 \/ subsBroad > 0) =>
                   /\ Len(About(step'.notified, k)) = 1
                   /\ About(step'.notified, k)[1].reason = "expired"
                   /\ Len(HeardBy(About(step'.notified, k)[1], "sub")) = subs[k]
                   /\ Len(HeardBy(About(step'.notified, k)[1], "broad")) = subsBroad

\* C30: clearing or expiry of the cache entry of a key with a record tells the
\* listeners with reason expired and removes the record.
C30_ExpiredNotifiedAndRemoved == [][C30_ExpireStep]_vars

\* C30: a sweep has removed the expired entry of k1, the broadcast listener was
\* told with reason expired, and k1 has neither entry nor record.
C30_SweptAndTold ==
    /\ step.op = "gcTimer"
    /\ Len(About(step.notified, "k1")) = 1
    /\ About(step.notified, "k1")[1].reason = "expired"
    /\ About(step.notified, "k1")[1].heard = <<[to |-> "broad", who |-> 1, threw |-> FALSE]>>
    /\ cache["k1"] = NoEntry
    /\ requests["k1"] = NoReq

\* The program's variables (all but the record of the last step)
world == <<now, maxParallelRequests, fetching, pending, batchAdjuster, requests, detached,
           batchers, subs, subsBroad, scheduledPush, calls, dead, cache, tags, locks,
           gcPending, gcDue>>

\* C31, one step.  refetchByKey of a key without a record, or with the record
\* of a mutation, returns false and changes nothing; of a key that is pending
\* or fetching it returns true and changes nothing; otherwise it returns true,
\* the same record is pending again and, its nextAttempt not being in the
\* future and the queue not limited, its function is invoked.  The call of a
\* query that resolves writes its result to the cache.
C31_RefetchStep ==
    LET k == step'.key
        rec == requests[k]
    IN /\ (step'.op = "refetchByKey" /\ (rec = NoReq \/ rec.options.type = "mutation")) =>
              (~step'.ret /\ world' = world /\ step'.started = <<>>)
       /\ (step'.op = "refetchByKey" /\ rec # NoReq /\ rec.options.type = "query" /\ Queued(k)) =>
              (step'.ret /\ world' = world /\ step'.started = <<>>)
       /\ (step'.op = "refetchByKey" /\ rec # NoReq /\ rec.options.type = "query" /\ ~Queued(k)) =>
              /\ step'.ret
              /\ Has(pending', k)
              /\ requests'[k] # NoReq
              /\ requests'[k].options = rec.options /\ requests'[k].args = rec.args
              /\ (maxParallelRequests < 0 /\ (rec.nextAttempt = Undef \/ rec.nextAttempt <= now)) =>
                     (Invoked(step'.started, k) = 1 /\ Has(fetching', k))
       /\ (step'.op = "resolve" /\ step'.ret.call.refs = <<0>> /\ rec # NoReq
            /\ rec.options.type = "query") =>
              (cache'[k] # NoEntry /\ cache'[k].value = step'.ret.res
               /\ state(Machine', k).data = step'.ret.res)

Times(s, k) == Cardinality({i \in 1..Len(s) : s[i] = k})

\* C32 as amended, one step: a key that enters fetching stays in pending, and
\* a failure of a key in fetching that is retried takes the key out of fetching (until the scheduler
\* starts it again) and leaves pending as it is: the key is not added to
\* pending a second time.
C32_QueueStep ==
    /\ \A k \in AllKeys : (~Has(fetching, k) /\ Has(fetching', k)) => Has(pending', k)
    /\ (step'.op = "reject" /\ step'.ret.call.refs = <<0>>
         /\ Has(fetching, step'.key)
         /\ ~LastAttempt(requests[step'.key])) =>
            /\ (\A i \in 1..Len(step'.started) : ~Has(step'.started[i].keys, step'.key))
                  => Times(fetching', step'.key) = Times(fetching, step'.key) - 1
            /\ pending' = pending
            /\ Has(pending', step'.key)

\* C32 as amended: a key being fetched is still in pending; it leaves pending
\* only when its call is finalized or cancelled, and on a retry it is removed
\* from fetching and stays in pending.
C32_FetchingStaysPending == [][C32_QueueStep]_vars

\* C32: the call of k1 has failed and waits for its retry: k1 has left
\* fetching and is in pending once.
C32_WaitsForRetry ==
    /\ step.op = "reject"
    /\ step.key = "k1"
    /\ requests["k1"] # NoReq
    /\ requests["k1"].attempts = 1
    /\ Times(pending, "k1") = 1
    /\ ~Has(fetching, "k1")

\* C32 as stated: no key is in pending and in fetching at once.
C32_NeverInBoth == \A k \in AllKeys : ~(Has(pending, k) /\ Has(fetching, k))

\* C33: stats().fetching <= stats().pending, and every key being fetched is
\* counted in pending as well, as often as it is in fetching.
C33_FetchingWithinPending ==
    /\ Len(fetching) <= Len(pending)
    /\ \A k \in AllKeys : Times(fetching, k) <= Times(pending, k)

\* C33: as in the test of stats(), one request is in flight and another waits
\* for its delay: stats().pending is 2 and stats().fetching is 1.
C33_TwoPendingOneFetching ==
    /\ Len(pending) = 2
    /\ Len(fetching) = 1
    /\ Len(calls) = 1
    /\ Has(pending, "k1") /\ Has(fetching, "k1")
    /\ Has(pending, "k2") /\ ~Has(fetching, "k2")
    /\ requests["k2"].nextAttempt > now

\* The unlocked entries with a finite expiry that are still to expire
AwaitingExpiry(c, l, t) ==
    {k \in AllKeys : c[k] # NoEntry /\ c[k].expiresAt # Undef /\ ~l[k] /\ c[k].expiresAt > t}

\* C34, one step: an operation that finds a GC timer outstanding leaves that
\* timer as it is and sets no other, and the sweep of a timer sets the next
\* timer exactly when unlocked entries with a finite expiry are left waiting.
C34_GcStep ==
    /\ (gcPending /\ step'.op # "gcTimer") => (gcPending' /\ gcDue' = gcDue)
    /\ step'.op = "gcTimer" =>
          /\ gcPending' <=> AwaitingExpiry(cache', locks', now') # {}
          /\ gcPending' => gcDue' = now' + defaultGCInterval
          /\ \A k \in AllKeys :
                (cache'[k] # NoEntry /\ cache'[k].expiresAt # Undef /\ ~locks'[k])
                    => k \in AwaitingExpiry(cache', locks', now')

\* C34: GC scheduling is idempotent (one timer, whose due time no later
\* request for scheduling changes) and a sweep re-schedules itself exactly
\* when unlocked entries with a finite expiry still await their expiry.
C34_OneGcTimer == [][C34_GcStep]_vars

\* C34: the sweep of the GC timer has left k2, which expires later, in the
\* cache and has set the next timer, one interval from now.
C34_RescheduledOnce ==
    /\ step.op = "gcTimer"
    /\ gcPending
    /\ gcDue = now + defaultGCInterval
    /\ cache["k1"] = NoEntry
    /\ "k2" \in AwaitingExpiry(cache, locks, now)

\* An unlocked entry of k with a finite expiry
Expiring(k) == cache[k] # NoEntry /\ cache[k].expiresAt # Undef /\ ~locks[k]

\* The last step was a sweep of the GC timer that emitted Expire for k
Swept(k) ==
    /\ step.op = "gcTimer"
    /\ cache[k] = NoEntry
    /\ \E n \in 1..Len(step.emitted) : step.emitted[n] = [key |-> k, change |-> "expire"]

\* The entry of k or the GC timer is due after the last instant of the clock
BeyondClock(k) == cache[k] # NoEntry /\ (cache[k].expiresAt > MaxTime \/ gcDue > MaxTime)

\* C35, between sweeps: a GC timer is pending whenever an unlocked entry with
\* a finite expiry exists.
C35_TimerWhileExpiring == (\E k \in AllKeys : Expiring(k)) => gcPending

\* C35, one step: an entry without expiresAt is not removed by a sweep.
C35_SweepStep ==
    \A k \in AllKeys :
        (step'.op = "gcTimer" /\ cache[k] # NoEntry /\ cache[k].expiresAt = Undef)
            => cache'[k] = cache[k]

\* C35: an unlocked entry with a finite expiry is eventually removed by a
\* sweep of the GC timer, with Expire emitted, unless it is locked, cleared or
\* made non-expiring first (or is due after the last instant of the clock);
\* a GC timer is pending as long as such an entry exists; and a sweep never
\* removes an entry that has no expiresAt.
C35_ExpiringEventuallySwept ==
    /\ []C35_TimerWhileExpiring
    /\ [][C35_SweepStep]_vars
    /\ \A k \in AllKeys :
          Expiring(k) ~> (Swept(k) \/ ~Expiring(k) \/ BeyondClock(k))

\* C35: the timer's sweep has removed the expired entry of k1, with Expire,
\* and has kept the entry of k2 that has no expiresAt.
C35_SweptOneKeptOther ==
    /\ Swept("k1")
    /\ cache["k2"] # NoEntry
    /\ cache["k2"].expiresAt = Undef

\* C37: every key in pending or fetching has a request record in the
\* registry, and no key occurs more than once in pending or in fetching.
C37_QueuesMatchRegistry ==
    \A k \in AllKeys :
        /\ (Has(pending, k) \/ Has(fetching, k)) => requests[k] # NoReq
        /\ Times(pending, k) <= 1
        /\ Times(fetching, k) <= 1

\* C37: clearCache has removed the record of k1 while k1 is in pending and
\* in fetching and its call is in flight.
C37_QueuedWithoutRecord ==
    /\ step.op = "clearCache"
    /\ step.key = "k1"
    /\ requests["k1"] = NoReq
    /\ Has(pending, "k1")
    /\ Has(fetching, "k1")
    /\ \E c \in 1..Len(calls) : calls[c].keys = <<"k1">>

\* The request of k waits for an attempt that is due after the last instant
\* of the clock
WaitsBeyondClock(k) == requests[k] # NoReq /\ requests[k].nextAttempt > MaxTime

\* C36: with a limit other than 0, calls that settle, finite retries and no
\* further requests, every key in pending eventually leaves pending.
C36_NoStarvation ==
    \A k \in AllKeys :
        (maxParallelRequests # 0 /\ now > 0 /\ Has(pending, k))
            ~> (~Has(pending, k) \/ WaitsBeyondClock(k))

\* C36: the wake-up timer has fired after the delay of k1, whose record a
\* clearCache has removed, and pushQueue has thrown on it: k1 is in pending,
\* no call is in flight and no timer is set.
C36_StuckInPending ==
    /\ step.op = "pushTimer"
    /\ step.thrown
    /\ Has(pending, "k1")
    /\ requests["k1"] = NoReq
    /\ calls = <<>>
    /\ dead = {}
    /\ scheduledPush = Undef

\* C38: a batch started for a batcher registered with maxBatchSize = n > 0
\* bundles at most n keys, the key that triggered the batch included.
C38_BatchWithinMax ==
    \A i \in 1..Len(step.started) :
        (step.started[i].kind = "batch" /\ batchers # <<>>
         /\ batchers[1].maxBatchSize # Undef /\ batchers[1].maxBatchSize > 0)
            => Len(step.started[i].keys) <= batchers[1].maxBatchSize

\* C38: with a batcher of maxBatchSize 1 and three keys waiting, raising the
\* limit has started one batch of two keys.
C38_TwoKeysForMaxOne ==
    /\ step.op = "updateConfig"
    /\ batchers # <<>>
    /\ batchers[1].maxBatchSize = 1
    /\ Len(step.started) > 0
    /\ step.started[1].kind = "batch"
    /\ Len(step.started[1].keys) = 2

\* C39, one step: when the fetch of a query whose cached value is stale
\* resolves, the entry is there and not stale afterwards, and a request of
\* the key with the same options starts no call.
C39_RefetchStep ==
    LET k == step'.key
    IN (step'.op = "resolve" /\ step'.ret.call.refs = <<0>>
        /\ requests[k] # NoReq /\ requests[k].options.type = "query"
        /\ getState(Machine, k).found /\ getState(Machine, k).stale) =>
          /\ getState(Machine', k).found
          /\ ~getState(Machine', k).stale
          /\ request(Machine', k, requests[k].options, ArgsOf(k)).m.started = <<>>

\* C39: after the refetch of a stale value has succeeded the entry is no
\* longer stale and the next request that is not forced starts no fetch,
\* with a new payload and with one the equalityCheck reports equal.
C39_FreshAfterRefetch == [][C39_RefetchStep]_vars

\* C39: the refetch of the stale value of k1 has resolved with the value the
\* cache holds, the equalityCheck has reported it equal, and the entry is
\* still stale: the next request of k1 starts another fetch.
C39_StillStaleAfterEqual ==
    /\ step.op = "resolve"
    /\ step.key = "k1"
    /\ requests["k1"] # NoReq
    /\ requests["k1"].options.equalityCheck
    /\ ~Queued("k1")
    /\ getState(Machine, "k1").found
    /\ getState(Machine, "k1").stale
    /\ cache["k1"].value = step.ret.res
    /\ Len(request(Machine, "k1", PEqual, ArgsOf("k1")).m.started) = 1

\* C40, one step: when refetchByKey or request puts a key that was not queued
\* into pending, a new cycle starts, and the attempts counter of the key's
\* record is 0.
C40_CycleStep ==
    LET k == step'.key
    IN (step'.op \in {"refetchByKey", "request"} /\ ~step'.thrown
        /\ ~(Has(pending, k) \/ Has(fetching, k))
        /\ (Has(pending', k) \/ Has(fetching', k))) =>
          (requests'[k] # NoReq /\ requests'[k].attempts = 0)

\* C40: every fetch cycle, started by refetchByKey or by a new request after
\* an earlier cycle of the key has ended, starts with attempts at 0 and so
\* has the full retry budget.
C40_FullBudgetEachCycle == [][C40_CycleStep]_vars

\* C40: refetchByKey has started a new cycle for k1, whose earlier cycle
\* ended after a failure, and the record still counts that failure: with
\* retries 1 the next failure is final.
C40_BudgetSpent ==
    /\ step.op = "refetchByKey"
    /\ step.key = "k1"
    /\ Queued("k1")
    /\ requests["k1"] # NoReq
    /\ requests["k1"].options.retries = 1
    /\ requests["k1"].attempts = 1
    /\ LastAttempt(requests["k1"])
====
